---- MODULE Spec2Model ----
(***************************************************************************)
(* A model of products.py (UniversalEcommerceScraper and main).            *)
(*                                                                         *)
(* Text is a sequence of one-character strings, so that the string         *)
(* operations of the source (strip, startswith, slicing, `in`, re.search)  *)
(* are computed character by character as Python computes them.            *)
(***************************************************************************)
EXTENDS Naturals, Sequences, FiniteSets, TLC

---------------------------------------------------------------------------
(* Characters and the str methods the source uses                          *)

Rupee == "₹"

Digits == {"0", "1", "2", "3", "4", "5", "6", "7", "8", "9"}

\* \s of the re module, restricted to the characters the model uses
Spaces == {" ", "\n", "\t"}

UpperLetters ==
    <<"A", "B", "C", "D", "E", "F", "G", "H", "I", "J", "K", "L", "M",
      "N", "O", "P", "Q", "R", "S", "T", "U", "V", "W", "X", "Y", "Z">>

LowerLetters ==
    <<"a", "b", "c", "d", "e", "f", "g", "h", "i", "j", "k", "l", "m",
      "n", "o", "p", "q", "r", "s", "t", "u", "v", "w", "x", "y", "z">>

UpperToLower == [c \in {UpperLetters[i] : i \in 1..26} |->
                    LowerLetters[CHOOSE i \in 1..26 : UpperLetters[i] = c]]

LowerToUpper == [c \in {LowerLetters[i] : i \in 1..26} |->
                    UpperLetters[CHOOSE i \in 1..26 : LowerLetters[i] = c]]

\* case folding of one character (re.IGNORECASE, str.lower)
Lower(c) == IF c \in DOMAIN UpperToLower THEN UpperToLower[c] ELSE c

\* the unknown sentinel 'N/A'
NA == <<"N", "/", "A">>

Min(a, b) == IF a < b THEN a ELSE b

Max(a, b) == IF a < b THEN b ELSE a

\* s[:n]
Take(s, n) == SubSeq(s, 1, Min(n, Len(s)))

\* s[n:]
Drop(s, n) == SubSeq(s, n + 1, Len(s))

\* s.startswith(p)
StartsWith(s, p) == Len(p) <= Len(s) /\ SubSeq(s, 1, Len(p)) = p

\* p occurs in s at (1-based) position i
OccursAt(s, p, i) == i + Len(p) - 1 <= Len(s) /\ SubSeq(s, i, i + Len(p) - 1) = p

\* p in s
Contains(s, p) == \E i \in 1..(Len(s) + 1) : OccursAt(s, p, i)

\* p occurs in s at position i, ignoring case (p is given in lower case)
OccursAtI(s, p, i) ==
    /\ i + Len(p) - 1 <= Len(s)
    /\ \A k \in 1..Len(p) : Lower(s[i + k - 1]) = p[k]

\* s.strip()
Strip(s) ==
    LET keep == {i \in 1..Len(s) : s[i] \notin Spaces}
    IN  IF keep = {} THEN <<>>
        ELSE SubSeq(s, CHOOSE i \in keep : \A j \in keep : i <= j,
                       CHOOSE i \in keep : \A j \in keep : j <= i)

\* s.isdigit()
IsDigitStr(s) == s # <<>> /\ \A i \in 1..Len(s) : s[i] \in Digits

\* the end of the maximal run of characters of class cls that starts at i
\* (i - 1 when s[i] is not of the class)
RECURSIVE RunEnd(_, _, _)
RunEnd(s, cls, i) ==
    IF i <= Len(s) /\ s[i] \in cls THEN RunEnd(s, cls, i + 1) ELSE i - 1

\* the least element of a non-empty set of numbers
Least(S) == CHOOSE i \in S : \A j \in S : i <= j

\* the greatest element of a non-empty set of numbers
Greatest(S) == CHOOSE i \in S : \A j \in S : j <= i

\* s.split('\n')
RECURSIVE SplitLines(_)
SplitLines(s) ==
    LET nl == {i \in 1..Len(s) : s[i] = "\n"}
    IN  IF nl = {} THEN <<s>>
        ELSE <<SubSeq(s, 1, Least(nl) - 1)>> \o SplitLines(Drop(s, Least(nl)))

\* '\n'.join(lines)
RECURSIVE JoinLines(_)
JoinLines(lines) ==
    IF lines = <<>> THEN <<>>
    ELSE IF Len(lines) = 1 THEN lines[1]
    ELSE lines[1] \o <<"\n">> \o JoinLines(Tail(lines))

\* [f(x) for x in seq]: here, the stripped lines
StripAll(lines) == [i \in 1..Len(lines) |-> Strip(lines[i])]

NonEmpty(line) == line # <<>>

---------------------------------------------------------------------------
(* The regular expressions of the source, each computed as re.search       *)
(* computes it: the leftmost start, and from it the first alternative in   *)
(* the backtracking order of the greedy operators.                         *)

DigitsOrComma == Digits \cup {","}

\* re.search(r'[\d,]+', s): the match, or <<>> for None (line 927)
SearchDigitsCommas(s) ==
    LET starts == {i \in 1..Len(s) : s[i] \in DigitsOrComma}
    IN  IF starts = {} THEN <<>>
        ELSE SubSeq(s, Least(starts), RunEnd(s, DigitsOrComma, Least(starts)))

\* re.search(r'(\d+\.?\d*)', s).group(1), or <<>> for None (line 936):
\* a run of digits, then a dot if one follows, then the digits after it
SearchNumber(s) ==
    LET starts == {i \in 1..Len(s) : s[i] \in Digits}
        i == Least(starts)
        e1 == RunEnd(s, Digits, i)
        e2 == IF e1 + 1 <= Len(s) /\ s[e1 + 1] = "."
              THEN RunEnd(s, Digits, e1 + 2) ELSE e1
    IN  IF starts = {} THEN <<>> ELSE SubSeq(s, i, e2)

\* re.search(r'(\d+)', s).group(1), or <<>> for None (line 945)
SearchDigits(s) ==
    LET starts == {i \in 1..Len(s) : s[i] \in Digits}
    IN  IF starts = {} THEN <<>>
        ELSE SubSeq(s, Least(starts), RunEnd(s, Digits, Least(starts)))

\* the positions where r'₹?([\d,]+)' can start a match: at a ₹ followed by
\* a digit or comma, or at a digit or comma
PriceStarts(s) ==
    {i \in 1..Len(s) :
        \/ s[i] \in DigitsOrComma
        \/ s[i] = Rupee /\ i + 1 <= Len(s) /\ s[i + 1] \in DigitsOrComma}

\* re.search(r'₹?([\d,]+)', s).group(0), or <<>> for None (lines 411, 460)
SearchPrice(s) ==
    LET i == Least(PriceStarts(s))
    IN  IF PriceStarts(s) = {} THEN <<>>
        ELSE IF s[i] = Rupee THEN SubSeq(s, i, RunEnd(s, DigitsOrComma, i + 1))
        ELSE SubSeq(s, i, RunEnd(s, DigitsOrComma, i))

\* re.search(r'₹?\d+', line) is not None (line 381)
HasAmount(s) ==
    \E i \in 1..Len(s) :
        \/ s[i] \in Digits
        \/ s[i] = Rupee /\ i + 1 <= Len(s) /\ s[i + 1] \in Digits

\* \s* followed by one of the words, ignoring case, can match from position k
TailMatches(s, k, words) ==
    \E c \in 0..(Len(s) + 1 - k) :
        /\ \A j \in k..(k + c - 1) : s[j] \in Spaces
        /\ \E w \in words : OccursAtI(s, w, k + c)

StarWords == {<<"s", "t", "a", "r">>, <<"r", "a", "t", "i", "n", "g">>}

\* re.search(r'\d+\s*(?:stars?|ratings?)', line, re.IGNORECASE) is not None
\* (line 381)
HasRatingCount(s) ==
    \E i \in 1..Len(s) : s[i] \in Digits /\ TailMatches(s, RunEnd(s, Digits, i) + 1, StarWords)

RatingWords ==
    {<<"o", "u", "t", " ", "o", "f", " ", "5">>, <<"/", "5">>, <<"s", "t", "a", "r">>}

\* the end of the longest text digits[.digits] that starts at i
NumberEnd(s, i) ==
    LET e1 == RunEnd(s, Digits, i)
    IN  IF e1 + 1 <= Len(s) /\ s[e1 + 1] = "." THEN RunEnd(s, Digits, e1 + 2) ELSE e1

\* the ends e of group 1 = s[i..e] for which the rest of
\* r'(\d+\.?\d*)\s*(?:out of 5|/5|stars?)' matches: every prefix of the
\* longest digits[.digits] is a \d+\.?\d*, and backtracking tries the longer first
RatingEnds(s, i) == {e \in i..NumberEnd(s, i) : TailMatches(s, e + 1, RatingWords)}

\* re.search(r'(\d+\.?\d*)\s*(?:out of 5|/5|stars?)', s, re.IGNORECASE).group(1),
\* or <<>> for None (lines 415, 464)
SearchRating(s) ==
    LET starts == {i \in 1..Len(s) : s[i] \in Digits /\ RatingEnds(s, i) # {}}
        i == Least(starts)
    IN  IF starts = {} THEN <<>> ELSE SubSeq(s, i, Greatest(RatingEnds(s, i)))

ReviewWords == <<<<"r", "a", "t", "i", "n", "g">>, <<"r", "e", "v", "i", "e", "w">>>>

\* the end of r'\s*(?:ratings?|reviews?)' matched from position k, or 0: the
\* words start with a letter, so \s* takes all the white space, the first
\* alternative that matches is taken, and s? takes an s that follows
ReviewTailEnd(s, k) ==
    LET p == RunEnd(s, Spaces, k) + 1
        hits == {w \in 1..2 : OccursAtI(s, ReviewWords[w], p)}
        e == p + Len(ReviewWords[Least(hits)]) - 1
    IN  IF hits = {} THEN 0
        ELSE IF e + 1 <= Len(s) /\ Lower(s[e + 1]) = "s" THEN e + 1 ELSE e

\* re.search(r'(\d+)\s*(?:ratings?|reviews?)', s, re.IGNORECASE).group(0),
\* or <<>> for None (line 419): \d+ gives digits back one at a time, which
\* never helps, since what follows a shorter run is a digit
SearchReviews(s) ==
    LET starts == {i \in 1..Len(s) :
                      s[i] \in Digits /\ ReviewTailEnd(s, RunEnd(s, Digits, i) + 1) > 0}
        i == Least(starts)
    IN  IF starts = {} THEN <<>>
        ELSE SubSeq(s, i, ReviewTailEnd(s, RunEnd(s, Digits, i) + 1))

---------------------------------------------------------------------------
(* clean_product_data and validate_product_data (lines 907-1008)           *)

\* prefixes_to_remove (lines 913-916), which is also bad_name_patterns
\* (lines 963-966)
BoilerplateNames ==
    << <<"A", "d", "d", " ", "t", "o", " ", "C", "o", "m", "p", "a", "r", "e">>,
       <<"S", "p", "o", "n", "s", "o", "r", "e", "d">>,
       <<"S", "p", "o", "n", "s", "o", "r", "e", "d", "C", "a", "s", "o", "n">>,
       <<"S", "p", "o", "n", "s", "o", "r", "e", "d", "C", "a", "s", "o", "n", " ",
         "W", "i", "r", "e", "l", "e", "s", "s">>,
       <<"S", "p", "o", "n", "s", "o", "r", "e", "d", "C", "a", "s", "o", "n", " ",
         "W", "i", "r", "e", "l", "e", "s", "s", " ", "+", " ", "W", "i", "r", "e", "d">> >>

\* the loop of lines 917-919 from prefix k on: one pass over the list, each
\* prefix removed at most once, the name stripped after each removal
RECURSIVE RemovePrefixes(_, _)
RemovePrefixes(name, k) ==
    IF k > Len(BoilerplateNames) THEN name
    ELSE IF StartsWith(name, BoilerplateNames[k])
         THEN RemovePrefixes(Strip(Drop(name, Len(BoilerplateNames[k]))), k + 1)
         ELSE RemovePrefixes(name, k + 1)

\* lines 910-920: an empty name is left alone
CleanName(name) == IF name = <<>> THEN name ELSE RemovePrefixes(Strip(name), 1)

\* the price cleaned with the pattern \d+ in place of [\d,]+
CleanPrice_DigitsOnly(price) ==
    IF price = <<>> THEN price
    ELSE IF SearchDigits(price) # <<>> THEN <<Rupee>> \o SearchDigits(price)
    ELSE NA

\* lines 923-931: an empty price is left alone
CleanPrice(price) ==
    IF price = <<>> THEN price
    ELSE IF SearchDigitsCommas(price) # <<>> THEN <<Rupee>> \o SearchDigitsCommas(price)
    ELSE NA

\* lines 934-940
CleanRating(rating) ==
    IF rating = <<>> THEN rating
    ELSE IF SearchNumber(rating) # <<>> THEN SearchNumber(rating)
    ELSE NA

\* lines 943-949
CleanReviews(reviews) ==
    IF reviews = <<>> THEN reviews
    ELSE IF SearchDigits(reviews) # <<>> THEN SearchDigits(reviews)
    ELSE NA

\* clean_product_data raises (UnboundLocalError): `import re` at line 926 is
\* inside the price branch and makes re a local name of the function, so the
\* re.search of line 936 or 945 fails when the price branch was skipped
CleanRaises(product_data) ==
    /\ product_data.current_price = <<>>
    /\ (product_data.rating # <<>> \/ product_data.reviews # <<>>)

\* clean_product_data when it does not raise: the four fields rewritten in
\* place, the others kept
clean_product_data(product_data) ==
    [product_data EXCEPT !.name = CleanName(@),
                         !.current_price = CleanPrice(@),
                         !.rating = CleanRating(@),
                         !.reviews = CleanReviews(@)]

GenericMinLen == 5

AmazonMinLen == 10

FlipkartMinLen == 5

SathyaMinLen == 2

MeeshoMinLen == 3

\* the site-specific checks of lines 985-1006 on a cleaned name; a key that
\* is none of the four has none
SiteRejects(name, site_key) ==
    CASE site_key = "amazon" -> Len(name) < AmazonMinLen
      [] site_key = "flipkart" -> Len(name) < FlipkartMinLen
      [] site_key = "sathya" -> Len(name) < SathyaMinLen \/ StartsWith(name, <<Rupee>>)
      [] site_key = "meesho" -> Len(name) < MeeshoMinLen
      [] OTHER -> FALSE

\* the checks on the cleaned name without that of line 981 (a name that
\* starts with the rupee sign)
NameAccepted_NoRupeeCheck(name, site_key) ==
    /\ ~(name = <<>> \/ name = NA)
    /\ \A k \in 1..Len(BoilerplateNames) : ~Contains(name, BoilerplateNames[k])
    /\ ~(Len(name) < GenericMinLen)
    /\ ~IsDigitStr(name)
    /\ ~SiteRejects(name, site_key)

\* the checks on the cleaned name with the site's minimum length in place of
\* the generic one of line 973 for the four configured sites
NameAccepted_SiteReplaces(name, site_key) ==
    /\ ~(name = <<>> \/ name = NA)
    /\ \A k \in 1..Len(BoilerplateNames) : ~Contains(name, BoilerplateNames[k])
    /\ site_key \notin {"amazon", "flipkart", "sathya", "meesho"}
          => ~(Len(name) < GenericMinLen)
    /\ ~IsDigitStr(name)
    /\ ~StartsWith(name, <<Rupee>>)
    /\ ~SiteRejects(name, site_key)

\* the checks of lines 959-1008 on the cleaned name
NameAccepted(name, site_key) ==
    /\ ~(name = <<>> \/ name = NA)
    /\ \A k \in 1..Len(BoilerplateNames) : ~Contains(name, BoilerplateNames[k])
    /\ ~(Len(name) < GenericMinLen)
    /\ ~IsDigitStr(name)
    /\ ~StartsWith(name, <<Rupee>>)
    /\ ~SiteRejects(name, site_key)

\* validate_product_data returns True; the dictionary it was given is cleaned
\* in place (line 956), so what the caller appends is clean_product_data of
\* it. When clean_product_data raises, so does validate_product_data: every
\* caller is inside a try and appends nothing
validate_product_data(product_data, site_key) ==
    /\ ~CleanRaises(product_data)
    /\ NameAccepted(clean_product_data(product_data).name, site_key)

---------------------------------------------------------------------------
(* Tier 3: extract_from_text_chunk and try_aggressive_parsing              *)
(* (lines 362-449)                                                         *)

NameLimit == 100

\* [line.strip() for line in text.split('\n') if line.strip()]
\* (lines 406, 468)
StrippedLines(text) == SelectSeq(StripAll(SplitLines(text)), NonEmpty)

\* the test of line 425 on a later line, against the name chosen so far;
\* re.match(r'^\d+', line) is a digit at the start
PreferredOver(line, name) ==
    /\ Len(line) > Len(name)
    /\ ~StartsWith(line, <<Rupee>>)
    /\ ~(line # <<>> /\ line[1] \in Digits)

\* lines 423-430 without the break of line 427: the last later line that is
\* longer than the name chosen so far, which is the longest such line
ChunkName_Longest(lines) ==
    LET later == {k \in 2..Len(lines) : PreferredOver(lines[k], lines[1])}
        longest == {k \in later : \A j \in later : Len(lines[j]) <= Len(lines[k])}
    IN  Take(IF later = {} THEN lines[1] ELSE lines[Least(longest)], NameLimit)

\* lines 423-430: the first line, or the first later line that passes the
\* test of line 425 (the loop breaks at it), cut to 100 characters
ChunkName(lines) ==
    LET later == {k \in 2..Len(lines) : PreferredOver(lines[k], lines[1])}
    IN  Take(IF later = {} THEN lines[1] ELSE lines[Least(later)], NameLimit)

\* re.search(...) and the `if match else 'N/A'` that follows it
OrNA(found) == IF found = <<>> THEN NA ELSE found

\* extract_from_text_chunk returns None (line 408)
ChunkIsNone(text_chunk) == StrippedLines(text_chunk) = <<>>

\* extract_from_text_chunk when it returns a dictionary (lines 411-447); the
\* fields no statement of the program reads back (original_price, discount,
\* offers, image_url, delivery, availability, search_query, scraped_at) are
\* left out of the records of the model
extract_from_text_chunk(text_chunk, index, site_key) ==
    [index |-> index,
     name |-> ChunkName(StrippedLines(text_chunk)),
     current_price |-> OrNA(SearchPrice(text_chunk)),
     rating |-> OrNA(SearchRating(text_chunk)),
     reviews |-> OrNA(SearchReviews(text_chunk)),
     site |-> site_key]

MinLineLen == 5

ChunkMaxLines == 5

Tier3ChunkLimit == 20

MinChunkLen == 20

LongEnough(line) == Len(line) > MinLineLen

\* line 373: the stripped lines of the visible text longer than 5 characters
\* (a line longer than 5 is not empty)
TextLines(text_content) == SelectSeq(StripAll(SplitLines(text_content)), LongEnough)

\* the test of line 381
IsAnchor(line) == HasAmount(line) \/ HasRatingCount(line)

\* the loop of lines 379-390 with <= in place of < in the test of line 385
RECURSIVE SegmentFrom_SixLines(_, _, _, _)
SegmentFrom_SixLines(lines, k, product_chunks, current_chunk) ==
    IF k > Len(lines) THEN product_chunks
    ELSE LET flushed == IF current_chunk # <<>>
                        THEN Append(product_chunks, JoinLines(current_chunk))
                        ELSE product_chunks
         IN  IF IsAnchor(lines[k])
             THEN SegmentFrom_SixLines(lines, k + 1, flushed, <<lines[k]>>)
             ELSE IF current_chunk # <<>> /\ Len(current_chunk) <= ChunkMaxLines
             THEN SegmentFrom_SixLines(lines, k + 1, product_chunks,
                                       Append(current_chunk, lines[k]))
             ELSE SegmentFrom_SixLines(lines, k + 1, flushed, <<>>)

\* the loop of lines 379-390 from line k on, with the chunks emitted so far
\* and the open chunk; the chunk open after the last line is not emitted
RECURSIVE SegmentFrom(_, _, _, _)
SegmentFrom(lines, k, product_chunks, current_chunk) ==
    IF k > Len(lines) THEN product_chunks
    ELSE LET flushed == IF current_chunk # <<>>
                        THEN Append(product_chunks, JoinLines(current_chunk))
                        ELSE product_chunks
         IN  IF IsAnchor(lines[k])
             THEN SegmentFrom(lines, k + 1, flushed, <<lines[k]>>)
             ELSE IF current_chunk # <<>> /\ Len(current_chunk) < ChunkMaxLines
             THEN SegmentFrom(lines, k + 1, product_chunks, Append(current_chunk, lines[k]))
             ELSE SegmentFrom(lines, k + 1, flushed, <<>>)

\* product_chunks after the loop of lines 376-390
Segment(lines) == SegmentFrom(lines, 1, <<>>, <<>>)

\* current_chunk after the loop of lines 379-390 run from line k on
RECURSIVE CurrentChunkFrom(_, _, _)
CurrentChunkFrom(lines, k, current_chunk) ==
    IF k > Len(lines) THEN current_chunk
    ELSE IF IsAnchor(lines[k]) THEN CurrentChunkFrom(lines, k + 1, <<lines[k]>>)
    ELSE IF current_chunk # <<>> /\ Len(current_chunk) < ChunkMaxLines
    THEN CurrentChunkFrom(lines, k + 1, Append(current_chunk, lines[k]))
    ELSE CurrentChunkFrom(lines, k + 1, <<>>)

\* the loop of lines 393-398 without the test of line 394 on the length of
\* the chunk
RECURSIVE ProcessChunks_AnyLength(_, _, _)
ProcessChunks_AnyLength(chunks, i, site_key) ==
    IF i > Len(chunks) THEN <<>>
    ELSE LET product_data == extract_from_text_chunk(chunks[i], i, site_key)
             accepted == /\ ~ChunkIsNone(chunks[i])
                         /\ validate_product_data(product_data, site_key)
         IN  (IF accepted THEN <<clean_product_data(product_data)>> ELSE <<>>)
                 \o ProcessChunks_AnyLength(chunks, i + 1, site_key)

\* the loop of lines 393-398 from chunk i on: what it appends. A chunk longer
\* than 20 characters has a non-empty line, so extract_from_text_chunk
\* returns a dictionary for it, with a price that is not empty, so
\* validate_product_data does not raise
RECURSIVE ProcessChunks(_, _, _)
ProcessChunks(chunks, i, site_key) ==
    IF i > Len(chunks) THEN <<>>
    ELSE LET product_data == extract_from_text_chunk(chunks[i], i, site_key)
             accepted == /\ Len(chunks[i]) > MinChunkLen
                         /\ ~ChunkIsNone(chunks[i])
                         /\ validate_product_data(product_data, site_key)
         IN  (IF accepted THEN <<clean_product_data(product_data)>> ELSE <<>>)
                 \o ProcessChunks(chunks, i + 1, site_key)

\* try_aggressive_parsing: the records it appends for a document whose visible
\* text (soup.get_text() without script and style) is text_content
try_aggressive_parsing(text_content, site_key) ==
    ProcessChunks(Take(Segment(TextLines(text_content)), Tier3ChunkLimit), 1, site_key)

---------------------------------------------------------------------------
(* Tier 2: extract_basic_product_data (lines 451-492)                      *)

BasicMinText == 10

\* extract_basic_product_data returns None (line 457); text_content is
\* element.get_text(strip=True)
BasicIsNone(text_content) == Len(text_content) < BasicMinText

\* lines 468-473: the first line, or the second one when the first starts
\* with ₹ or ( or has fewer than 3 characters
BasicName(lines) ==
    LET first == IF lines # <<>> THEN lines[1] ELSE NA
    IN  IF StartsWith(first, <<Rupee>>) \/ StartsWith(first, <<"(">>) \/ Len(first) < 3
        THEN (IF Len(lines) > 1 THEN lines[2] ELSE NA)
        ELSE first

\* extract_basic_product_data with the rating of line 464 stored as the
\* reviews as well
extract_basic_product_data_RatingAsReviews(text_content, index, site_key) ==
    [index |-> index,
     name |-> Take(BasicName(StrippedLines(text_content)), NameLimit),
     current_price |-> OrNA(SearchPrice(text_content)),
     rating |-> OrNA(SearchRating(text_content)),
     reviews |-> OrNA(SearchRating(text_content)),
     site |-> site_key]

\* extract_basic_product_data when it returns a dictionary (lines 459-490)
extract_basic_product_data(text_content, index, site_key) ==
    [index |-> index,
     name |-> Take(BasicName(StrippedLines(text_content)), NameLimit),
     current_price |-> OrNA(SearchPrice(text_content)),
     rating |-> OrNA(SearchRating(text_content)),
     reviews |-> NA,
     site |-> site_key]

---------------------------------------------------------------------------
(* The site configuration (lines 45-273): the selector lists of the fields *)
(* the model keeps. A selector is its text q, with the text of its         *)
(* :contains("...") part split out as lines 758 does (<<>> when it has     *)
(* none).                                                                  *)

Css(q) == [q |-> q, text_to_find |-> <<>>]

ContainsSel(q, text) == [q |-> q, text_to_find |-> text]

\* ':contains(' in selector (line 756)
IsContains(selector) == selector.text_to_find # <<>>

RatingsLower == <<"r", "a", "t", "i", "n", "g", "s">>

RatingsUpper == <<"R", "a", "t", "i", "n", "g", "s">>

ReviewsUpper == <<"R", "e", "v", "i", "e", "w", "s">>

SiteKeys == {"amazon", "flipkart", "meesho", "sathya"}

product_selector(site_key) ==
    CASE site_key = "amazon" -> "div[data-component-type=\"s-search-result\"]"
      [] site_key = "flipkart" -> "div[data-id]"
      [] site_key = "meesho" -> "div[class*=\"product\"]"
      [] site_key = "sathya" -> "div.product-box"

name_selectors(site_key) ==
    CASE site_key = "amazon" ->
            <<Css("h2 a span[data-component-type=\"s-product-image\"]"), Css("h2 a span"),
              Css("h2 span"), Css("span[data-component-type=\"s-product-image\"]"),
              Css(".s-size-mini span"), Css("h2")>>
      [] site_key = "flipkart" ->
            <<Css("a[title]"), Css("div[class*=\"title\"] a"), Css("div[class*=\"title\"]"),
              Css("a[href*=\"/p/\"]"), Css("div[class*=\"product\"] a")>>
      [] site_key = "meesho" ->
            <<Css("div[class*=\"title\"]"), Css("h1"), Css("h2"), Css("h3"),
              Css("span[class*=\"title\"]")>>
      [] site_key = "sathya" ->
            <<Css("a[href*=\"/category/\"]"), Css("img[alt]"), Css("h4"), Css("h3"),
              Css("div[class*=\"title\"]")>>

price_selectors(site_key) ==
    CASE site_key = "amazon" ->
            <<Css(".a-price-whole"), Css(".a-price .a-price-whole"), Css("span.a-price-whole"),
              Css(".a-price-range .a-price-whole"),
              Css("span[data-a-size=\"xl\"] .a-price-whole")>>
      [] site_key = "flipkart" ->
            <<Css("div[class*=\"price\"]"), Css("span[class*=\"price\"]"),
              Css("div[class*=\"Nx9bqj\"]"), Css("div[class*=\"a-price-whole\"]"),
              Css("span[class*=\"a-price-whole\"]")>>
      [] site_key = "meesho" ->
            <<Css("span[class*=\"price\"]"), Css("div[class*=\"price\"]"),
              Css("span[class*=\"amount\"]")>>
      [] site_key = "sathya" ->
            <<ContainsSel("h4", <<Rupee>>), ContainsSel("span", <<Rupee>>),
              ContainsSel("div", <<Rupee>>), ContainsSel("p", <<Rupee>>)>>

rating_selectors(site_key) ==
    CASE site_key = "amazon" ->
            <<Css(".a-icon-alt"), Css("span[aria-label*=\"stars\"]"),
              Css(".a-icon-star-small .a-icon-alt"),
              Css("i[data-hook=\"average-star-rating\"] .a-icon-alt")>>
      [] site_key = "flipkart" ->
            <<Css("div[class*=\"rating\"]"), Css("span[class*=\"rating\"]"),
              Css("div[class*=\"XQDdHH\"]"), Css("span[class*=\"XQDdHH\"]"),
              Css("div[class*=\"star\"]"), Css("span[class*=\"star\"]")>>
      [] site_key = "meesho" ->
            <<Css("span[class*=\"rating\"]"), Css("div[class*=\"star\"]"),
              Css("span[class*=\"score\"]")>>
      [] site_key = "sathya" ->
            <<Css("div[class*=\"star\"]"), Css("span[class*=\"rating\"]"),
              Css("div[class*=\"review\"]"), Css("div[class*=\"rating\"]"),
              Css("span[class*=\"score\"]"), Css("div[class*=\"Rating\"]")>>

reviews_selectors(site_key) ==
    CASE site_key = "amazon" ->
            <<Css("a[href*=\"customerReviews\"] span"), Css("span[data-hook=\"total-review-count\"]"),
              Css("a[href*=\"reviews\"] span"), Css(".a-size-base")>>
      [] site_key = "flipkart" ->
            <<Css("span[class*=\"review\"]"), Css("div[class*=\"review\"]"),
              Css("span[class*=\"Wphh3N\"]"), Css("span[class*=\"Bz-crL\"]"),
              ContainsSel("span", RatingsUpper), ContainsSel("span", RatingsLower)>>
      [] site_key = "meesho" ->
            <<Css("span[class*=\"review\"]"), ContainsSel("span", RatingsLower)>>
      [] site_key = "sathya" ->
            <<Css("span[class*=\"review\"]"), ContainsSel("span", RatingsLower),
              ContainsSel("div", RatingsLower), ContainsSel("span", ReviewsUpper),
              ContainsSel("div", ReviewsUpper), Css("span[class*=\"Review\"]")>>

---------------------------------------------------------------------------
(* extract_with_multiple_selectors (lines 752-776)                         *)
(*                                                                         *)
(* A parsed fragment (a BeautifulSoup object or an element of one) is what *)
(* the library answers for it:                                             *)
(*   css      selector text -> get_text(strip=True) of the first element   *)
(*            select_one finds (no entry: select_one returns None)         *)
(*   strings  the text nodes in document order, each with                  *)
(*            get_text(strip=True) of its parent                           *)
(*   text     get_text(strip=True) of the fragment                         *)
(*   img_alt, href, detail_title   what extract_sathya_name looks at       *)
(*            (<<>>: there is none)                                        *)

LowerStr(s) == [i \in 1..Len(s) |-> Lower(s[i])]

\* re.compile(text_to_find, re.IGNORECASE).search(text) is not None, for a
\* text_to_find without metacharacters (those of the lists above have none)
SearchI(text, text_to_find) ==
    \E i \in 1..(Len(text) + 1) : OccursAtI(text, LowerStr(text_to_find), i)

\* soup.find_all(string=re.compile(text_to_find, re.IGNORECASE)) (line 760):
\* the positions of the text nodes found
FindAllStrings(soup, text_to_find) ==
    {k \in 1..Len(soup.strings) : SearchI(soup.strings[k].text, text_to_find)}

\* a turn that returns the text of the element select_one found whatever the
\* text is (the test of line 771 left out)
SelectorReturns_AnyText(soup, selector) ==
    IF IsContains(selector)
    THEN FindAllStrings(soup, selector.text_to_find) # {}
    ELSE selector.q \in DOMAIN soup.css

\* one turn of the loop of line 754 returns (lines 761-766, 769-772)
SelectorReturns(soup, selector) ==
    IF IsContains(selector)
    THEN FindAllStrings(soup, selector.text_to_find) # {}
    ELSE /\ selector.q \in DOMAIN soup.css
         /\ soup.css[selector.q] # <<>>
         /\ soup.css[selector.q] # NA

\* what that turn returns: the text of the parent of the first text node
\* found (a text node of a parsed fragment has a parent), or the text of the
\* element select_one found
SelectorText(soup, selector) ==
    IF IsContains(selector)
    THEN soup.strings[Least(FindAllStrings(soup, selector.text_to_find))].parent
    ELSE soup.css[selector.q]

\* the loop of lines 754-776 from selector k on
RECURSIVE ResolveFrom(_, _, _)
ResolveFrom(soup, selectors, k) ==
    IF k > Len(selectors) THEN NA
    ELSE IF SelectorReturns(soup, selectors[k]) THEN SelectorText(soup, selectors[k])
    ELSE ResolveFrom(soup, selectors, k + 1)

extract_with_multiple_selectors(soup, selectors) == ResolveFrom(soup, selectors, 1)

---------------------------------------------------------------------------
(* Tier 1: extract_sathya_name and extract_product_data_with_config        *)
(* (lines 598-705)                                                         *)

Upper(c) == IF c \in DOMAIN LowerToUpper THEN LowerToUpper[c] ELSE c

IsLetter(c) == c \in DOMAIN LowerToUpper \/ c \in DOMAIN UpperToLower

\* s.title(): a letter is upper case after a character that is no letter (or
\* at the start) and lower case after a letter
Title(s) ==
    [i \in 1..Len(s) |-> IF i > 1 /\ IsLetter(s[i - 1]) THEN Lower(s[i]) ELSE Upper(s[i])]

\* s.replace('-', ' ')
DashesToSpaces(s) == [i \in 1..Len(s) |-> IF s[i] = "-" THEN " " ELSE s[i]]

\* s.split('/')[-1]
LastPart(s) ==
    LET slashes == {i \in 1..Len(s) : s[i] = "/"}
    IN  IF slashes = {} THEN s ELSE Drop(s, Greatest(slashes))

CategoryPath == <<"/", "c", "a", "t", "e", "g", "o", "r", "y", "/">>

SaveWord == <<"S", "a", "v", "e">>

\* the test of lines 667 and 689
GoodTitle(text) == text # <<>> /\ Len(text) > 5 /\ ~StartsWith(text, <<Rupee>>)

\* lines 676-680: the name taken from the last part of the link
HrefName(href) == Title(DashesToSpaces(LastPart(href)))

\* the test of line 699 on a stripped line
GoodTextLine(line) ==
    /\ line # <<>>
    /\ Len(line) > 5
    /\ ~StartsWith(line, <<Rupee>>)
    /\ ~StartsWith(line, <<"(">>)
    /\ ~StartsWith(line, SaveWord)

\* extract_sathya_name (lines 660-705)
extract_sathya_name(soup) ==
    LET alt_text == Strip(soup.img_alt)
        lines == StripAll(SplitLines(soup.text))
        good == {k \in 1..Len(lines) : GoodTextLine(lines[k])}
    IN  IF GoodTitle(alt_text) THEN alt_text
        ELSE IF /\ Contains(soup.href, CategoryPath)
                /\ Len(HrefName(soup.href)) > 3
             THEN HrefName(soup.href)
        ELSE IF GoodTitle(soup.detail_title) THEN soup.detail_title
        ELSE IF Len(soup.text) > 10 /\ good # {} THEN lines[Least(good)]
        ELSE NA

\* extract_product_data_with_config (lines 598-658), the fields the model
\* keeps
extract_product_data_with_config(soup, index, site_key) ==
    [index |-> index,
     name |-> IF site_key = "sathya" THEN extract_sathya_name(soup)
              ELSE extract_with_multiple_selectors(soup, name_selectors(site_key)),
     current_price |-> extract_with_multiple_selectors(soup, price_selectors(site_key)),
     rating |-> extract_with_multiple_selectors(soup, rating_selectors(site_key)),
     reviews |-> extract_with_multiple_selectors(soup, reviews_selectors(site_key)),
     site |-> site_key]

---------------------------------------------------------------------------
(* The tiers of scrape_site: what each appends to self.products            *)
(*                                                                         *)
(* A document (result.html once parsed) is the sequence of its container   *)
(* elements in document order, each with the set of container selectors it *)
(* matches and its parsed fragment, and the text outside them.             *)

\* soup.select(q): the fragments of the elements that match q
RECURSIVE Select(_, _)
Select(elements, q) ==
    IF elements = <<>> THEN <<>>
    ELSE (IF q \in elements[1].matches THEN <<elements[1].soup>> ELSE <<>>)
             \o Select(Tail(elements), q)

\* soup.get_text() (line 372): the text of the elements and the text outside
\* them, one after the other on lines of their own
RECURSIVE ElementsText(_)
ElementsText(elements) ==
    IF elements = <<>> THEN <<>>
    ELSE elements[1].soup.text \o <<"\n">> \o ElementsText(Tail(elements))

DocText(html) == ElementsText(html.elements) \o html.extra

\* a fragment on which the extraction raises: BeautifulSoup(element) at line
\* 548, caught at line 555, or a step of extract_product_data_with_config,
\* caught at line 656 (None is returned and line 549 or 590 skips it)
Raises(fragment) == "raises" \in DOMAIN fragment

\* the loops of lines 546-556 and 587-596 ended by the first fragment that is
\* not appended
RECURSIVE Tier1From_StopsAtRejected(_, _, _)
Tier1From_StopsAtRejected(fragments, i, site_key) ==
    IF i > Len(fragments) \/ Raises(fragments[i]) THEN <<>>
    ELSE LET product_data == extract_product_data_with_config(fragments[i], i, site_key)
         IN  IF validate_product_data(product_data, site_key)
             THEN <<clean_product_data(product_data)>>
                    \o Tier1From_StopsAtRejected(fragments, i + 1, site_key)
             ELSE <<>>

\* the loops of lines 546-556 and 587-596 numbering the records they append
\* 1, 2, 3, ... in place of i+1
RECURSIVE Tier1From_Renumbered(_, _, _)
Tier1From_Renumbered(fragments, i, site_key) ==
    IF i > Len(fragments) THEN <<>>
    ELSE IF Raises(fragments[i]) THEN Tier1From_Renumbered(fragments, i + 1, site_key)
    ELSE LET n == Cardinality({j \in 1..i :
                     /\ ~Raises(fragments[j])
                     /\ validate_product_data(
                            extract_product_data_with_config(fragments[j], j, site_key),
                            site_key)})
             product_data == extract_product_data_with_config(fragments[i], n, site_key)
         IN  (IF validate_product_data(product_data, site_key)
              THEN <<clean_product_data(product_data)>> ELSE <<>>)
                 \o Tier1From_Renumbered(fragments, i + 1, site_key)

\* the loops of lines 546-556 and 587-596 from fragment i on: a fragment is
\* appended when validate_product_data accepts it, skipped otherwise (also
\* when the extraction or validate_product_data raises, lines 555 and 595)
RECURSIVE Tier1From(_, _, _)
Tier1From(fragments, i, site_key) ==
    IF i > Len(fragments) THEN <<>>
    ELSE IF Raises(fragments[i]) THEN Tier1From(fragments, i + 1, site_key)
    ELSE LET product_data == extract_product_data_with_config(fragments[i], i, site_key)
         IN  (IF validate_product_data(product_data, site_key)
              THEN <<clean_product_data(product_data)>> ELSE <<>>)
                 \o Tier1From(fragments, i + 1, site_key)

\* parse_products_with_config (lines 542-556)
parse_products_with_config(product_elements, site_key) ==
    Tier1From(product_elements, 1, site_key)

\* fallback_selectors (lines 571-577)
fallback_selectors ==
    <<"div[class*=\"product\"]", "div[class*=\"item\"]", "div[class*=\"card\"]",
      "div[data-id]", "div[class*=\"search\"]">>

\* the elements of the first selector of the list that matches any (lines
\* 579-583 and 346-348), <<>> when none does
FirstMatch(elements, selectors) ==
    LET hits == {k \in 1..Len(selectors) : Select(elements, selectors[k]) # <<>>}
    IN  IF hits = {} THEN <<>> ELSE Select(elements, selectors[Least(hits)])

\* every element of the page
EveryElement(elements) == [k \in 1..Len(elements) |-> elements[k].soup]

\* product_containers that falls back on every element of the page when no
\* selector matches
ProductContainers_EveryElement(html, site_key) ==
    IF Select(html.elements, product_selector(site_key)) # <<>>
    THEN Select(html.elements, product_selector(site_key))
    ELSE IF FirstMatch(html.elements, fallback_selectors) # <<>>
    THEN FirstMatch(html.elements, fallback_selectors)
    ELSE EveryElement(html.elements)

\* product_containers of parse_products_from_html_with_config (lines 563-583)
ProductContainers(html, site_key) ==
    IF Select(html.elements, product_selector(site_key)) # <<>>
    THEN Select(html.elements, product_selector(site_key))
    ELSE FirstMatch(html.elements, fallback_selectors)

\* parse_products_from_html_with_config (lines 558-596)
parse_products_from_html_with_config(html, site_key) ==
    Tier1From(ProductContainers(html, site_key), 1, site_key)

\* alternative_selectors (lines 335-344)
alternative_selectors ==
    <<"div[class*=\"product\"]", "div[class*=\"item\"]", "div[class*=\"card\"]",
      "div[data-id]", "div[class*=\"search\"]", "div[class*=\"result\"]",
      "article", "section">>

Tier2Limit == 10

\* the loop of lines 350-357 from element i on
RECURSIVE Tier2From(_, _, _)
Tier2From(elements, i, site_key) ==
    IF i > Len(elements) THEN <<>>
    ELSE LET product_data == extract_basic_product_data(elements[i].text, i, site_key)
             accepted == /\ ~BasicIsNone(elements[i].text)
                         /\ validate_product_data(product_data, site_key)
         IN  (IF accepted THEN <<clean_product_data(product_data)>> ELSE <<>>)
                 \o Tier2From(elements, i + 1, site_key)

\* try_alternative_parsing that takes every element of the page when no
\* selector matches
try_alternative_parsing_EveryElement(html, site_key) ==
    IF FirstMatch(html.elements, alternative_selectors) # <<>>
    THEN Tier2From(Take(FirstMatch(html.elements, alternative_selectors), Tier2Limit),
                   1, site_key)
    ELSE Tier2From(Take(EveryElement(html.elements), Tier2Limit), 1, site_key)

\* try_alternative_parsing without the slice of line 350: every element of
\* the first selector that matches any
try_alternative_parsing_NoLimit(html, site_key) ==
    Tier2From(FirstMatch(html.elements, alternative_selectors), 1, site_key)

\* try_alternative_parsing (lines 329-360): the first ten elements of the
\* first selector that matches any, and no other selector (the break of
\* line 358)
try_alternative_parsing(html, site_key) ==
    Tier2From(Take(FirstMatch(html.elements, alternative_selectors), Tier2Limit), 1, site_key)

\* len([p for p in self.products if p.get('site') == site_key])
RECURSIVE CountSite(_, _)
CountSite(records, site_key) ==
    IF records = <<>> THEN 0
    ELSE (IF records[1].site = site_key THEN 1 ELSE 0) + CountSite(Tail(records), site_key)

\* the tests of lines 316 and 321 left out: every tier runs
NoProductsFor_Unconditional(records, site_key) == TRUE

\* the test of lines 316 and 321
NoProductsFor(records, site_key) == records = <<>> \/ CountSite(records, site_key) = 0

---------------------------------------------------------------------------
(* The pages the fetcher may return                                        *)

T_Samsung ==  \* "Samsung Galaxy M14 5G"
    <<"S", "a", "m", "s", "u", "n", "g", " ", "G", "a", "l", "a", "x", "y", " ",
      "M", "1", "4", " ", "5", "G">>

T_Vivo == <<"V", "i", "v", "o", " ", "Y", "2", "8">>  \* "Vivo Y28"

T_Sponsored == <<"S", "p", "o", "n", "s", "o", "r", "e", "d">>  \* "Sponsored"

T_Price == <<Rupee, "1", "2", ",", "9", "9", "9">>  \* "₹12,999"

T_Stars ==  \* "4.2 out of 5 stars"
    <<"4", ".", "2", " ", "o", "u", "t", " ", "o", "f", " ", "5", " ", "s", "t", "a", "r", "s">>

T_Ratings ==  \* "1,234 ratings"
    <<"1", ",", "2", "3", "4", " ", "r", "a", "t", "i", "n", "g", "s">>

T_Menu == <<"M", "e", "n", "u">>  \* "Menu"

T_Listing ==  \* "₹12,999 only\nBoat Airdopes Earbuds\nFree delivery\n4.2 out of 5 stars"
    <<Rupee, "1", "2", ",", "9", "9", "9", " ", "o", "n", "l", "y", "\n",
      "B", "o", "a", "t", " ", "A", "i", "r", "d", "o", "p", "e", "s", " ",
      "E", "a", "r", "b", "u", "d", "s", "\n",
      "F", "r", "e", "e", " ", "d", "e", "l", "i", "v", "e", "r", "y", "\n",
      "4", ".", "2", " ", "o", "u", "t", " ", "o", "f", " ", "5", " ", "s", "t", "a", "r", "s">>

T_Mouse ==  \* "₹799\nWireless Mouse\n4.2 out of 5\n230 ratings"
    <<Rupee, "7", "9", "9", "\n",
      "W", "i", "r", "e", "l", "e", "s", "s", " ", "M", "o", "u", "s", "e", "\n",
      "4", ".", "2", " ", "o", "u", "t", " ", "o", "f", " ", "5", "\n",
      "2", "3", "0", " ", "r", "a", "t", "i", "n", "g", "s">>

T_LinkPath == <<"/", "p", "/", "1">>  \* "/p/1"

NameKeys == {"h2 a span", "h2 span", "h2", "a[title]", "a[href*=\"/p/\"]"}

PriceKeys ==
    {".a-price-whole", "span.a-price-whole", "span[class*=\"price\"]",
     "span[class*=\"a-price-whole\"]"}

RatingKeys == {".a-icon-alt", "span[class*=\"rating\"]"}

ReviewKeys == {".a-size-base", "span[class*=\"review\"]"}

\* the text nodes of the parts that are there, each the only child of its
\* element
TextNodes(parts) ==
    LET there == SelectSeq(parts, NonEmpty)
    IN  [k \in 1..Len(there) |-> [text |-> there[k], parent |-> there[k]]]

RECURSIVE Concat(_)
Concat(parts) == IF parts = <<>> THEN <<>> ELSE parts[1] \o Concat(Tail(parts))

\* What the library answers for the listing element
\*   <h2><a title=".." href="/p/1"><span>NAME</span></a></h2>
\*   <span class="price a-price-whole">PRICE</span>
\*   <span class="rating a-icon-alt">RATING</span>
\*   <span class="review a-size-base">REVIEWS</span>
\* where a part given as <<>> is not in the element
Listing(name, price, rating, reviews) ==
    LET textOf(q) == IF q \in NameKeys THEN name
                     ELSE IF q \in PriceKeys THEN price
                     ELSE IF q \in RatingKeys THEN rating
                     ELSE reviews
        keys == {q \in NameKeys \cup PriceKeys \cup RatingKeys \cup ReviewKeys :
                    textOf(q) # <<>>}
    IN  [css |-> [q \in keys |-> textOf(q)],
         strings |-> TextNodes(<<name, price, rating, reviews>>),
         text |-> Concat(<<name, price, rating, reviews>>),
         img_alt |-> <<>>,
         href |-> IF name = <<>> THEN <<>> ELSE T_LinkPath,
         detail_title |-> <<>>]

\* What the library answers for an element that holds one text and nothing
\* any selector of the configuration finds
Plain(text) ==
    [css |-> [q \in {} |-> <<>>],
     strings |-> TextNodes(<<text>>),
     text |-> text,
     img_alt |-> <<>>,
     href |-> <<>>,
     detail_title |-> <<>>]

\* <div class="product-box" data-id=".." data-component-type="s-search-result">
ProductBox(soup) ==
    [matches |-> {"div[data-component-type=\"s-search-result\"]", "div[data-id]",
                  "div[class*=\"product\"]", "div.product-box"},
     soup |-> soup]

\* <div class="item-card">
ItemCard(soup) ==
    [matches |-> {"div[class*=\"item\"]", "div[class*=\"card\"]"}, soup |-> soup]

\* <article>
Article(soup) == [matches |-> {"article"}, soup |-> soup]

\* <section>
Section(soup) == [matches |-> {"section"}, soup |-> soup]

\* <div class="listing">, which no container selector of the program matches
OtherDiv(soup) == [matches |-> {}, soup |-> soup]

GoodListing == Listing(T_Samsung, T_Price, T_Stars, T_Ratings)

ShortListing == Listing(T_Vivo, T_Price, <<>>, <<>>)

SponsoredListing == Listing(T_Sponsored, T_Price, T_Stars, <<>>)

\* a listing whose heading holds the price
PriceListing == Listing(T_Price, T_Price, <<>>, <<>>)

\* a fragment with no text on which the extraction raises
Unparsable ==
    [css |-> [q \in {} |-> <<>>],
     strings |-> <<>>,
     text |-> <<>>,
     img_alt |-> <<>>,
     href |-> <<>>,
     detail_title |-> <<>>,
     raises |-> TRUE]

\* the documents a fetch may return
Docs ==
    {[elements |-> <<>>, extra |-> <<>>],
     [elements |-> <<>>, extra |-> T_Listing],
     [elements |-> <<>>, extra |-> T_Mouse],
     [elements |-> <<ProductBox(GoodListing), ProductBox(SponsoredListing),
                     ProductBox(Unparsable), ProductBox(ShortListing),
                     ProductBox(PriceListing)>>,
      extra |-> <<>>],
     [elements |-> <<ItemCard(GoodListing)>>, extra |-> <<>>],
     [elements |-> <<Article(Plain(T_Sponsored)), Article(GoodListing)>>, extra |-> <<>>],
     [elements |-> <<OtherDiv(GoodListing)>>, extra |-> <<>>],
     [elements |-> <<Section(Plain(T_Menu))>>, extra |-> T_Listing],
     [elements |-> <<Section(Plain(T_Menu))>>, extra |-> <<>>]}

\* two more documents, which the model lets one site return so that the runs
\* of main stay few: an article Tier 2 rejects before a section it would
\* accept, and one article more than Tier 2 processes
LongDocsSite == "flipkart"

LongDocs ==
    {[elements |-> <<Article(Plain(T_Sponsored)), Section(GoodListing)>>, extra |-> <<>>],
     [elements |-> [k \in 1..(Tier2Limit + 1) |-> Article(Plain(T_Samsung))],
      extra |-> <<>>]}

NoDoc == [elements |-> <<>>, extra |-> <<>>]

\* the fetcher's results for a site (lines 293-299): the page, with or
\* without the pre-isolated fragments of the site's product_selector
FetchResults(site_key) ==
    UNION {{[success |-> TRUE, extracted_content |-> ec, html |-> d] :
                ec \in {<<>>, Select(d.elements, product_selector(site_key))}} :
           d \in Docs \cup (IF site_key = LongDocsSite THEN LongDocs ELSE {})}

NoResult == [success |-> FALSE, extracted_content |-> <<>>, html |-> NoDoc]

---------------------------------------------------------------------------
(* The state                                                               *)

VARIABLES
    products,      \* self.products, the session collection
    appended_by,   \* for each record of products, the tier that appended it
    pc,            \* where main, or the scrape_site it awaits, stands
    site_i,        \* main's position in sites_to_test (line 1153)
    attempt,       \* main's attempt for that site (line 1155)
    result,        \* the fetcher's result inside scrape_site (line 293)
    tiers_run,     \* the tiers the scrape_site under way has run, in order
    scrape_base,   \* len(self.products) when the scrape_site under way began
    fetch,         \* how the fetch of the scrape_site under way ended
    e_calls,       \* the number of calls of emergency_extraction so far
    e_fetched,     \* what the fetches emergency_extraction made gave, in order
    sites,         \* the site keys the caller goes through (line 1153)
    v_pc,          \* validation alone: where the caller stands
    v_site,        \* validation alone: the site key
    v_raw,         \* validation alone: the raw field map
    v_once,        \* validation alone: the map after clean_product_data
    v_twice,       \* validation alone: the map after a second clean_product_data
    v_ok,          \* validation alone: what validate_product_data returned
    r_pc,          \* the field resolver alone: where it stands
    r_soup,        \* the field resolver alone: the fragment
    r_selectors,   \* the field resolver alone: the selector list
    r_k,           \* the field resolver alone: the selector the loop is at
    r_evaluated,   \* the field resolver alone: the selectors evaluated so far
    r_ret,         \* the field resolver alone: what it returned
    t_pc,          \* Tier 3 alone: where the caller stands
    t_site,        \* Tier 3 alone: the site key
    t_text,        \* Tier 3 alone: the visible text, or the chunk
    t_out,         \* Tier 3 alone: the records, or the dictionary, produced
    s_client,      \* the sinks alone: whether self.supabase_client is set
    s_log          \* the sinks alone: the calls made so far and how each ended

main_vars == <<products, appended_by, pc, site_i, attempt, result, tiers_run, scrape_base,
               fetch, e_calls, e_fetched, sites>>

v_vars == <<v_pc, v_site, v_raw, v_once, v_twice, v_ok>>

r_vars == <<r_pc, r_soup, r_selectors, r_k, r_evaluated, r_ret>>

t_vars == <<t_pc, t_site, t_text, t_out>>

s_vars == <<s_client, s_log>>

vars == <<main_vars, v_vars, r_vars, t_vars, s_vars>>

\* the parts of the state a specification does not use
MainIdle ==
    /\ products = <<>> /\ appended_by = <<>> /\ pc = "idle" /\ site_i = 0
    /\ attempt = 0 /\ result = NoResult /\ tiers_run = <<>> /\ scrape_base = 0
    /\ fetch = "" /\ e_calls = 0 /\ e_fetched = <<>> /\ sites = <<>>

ValidationIdle ==
    /\ v_pc = "idle" /\ v_site = "" /\ v_raw = <<>> /\ v_once = <<>>
    /\ v_twice = <<>> /\ v_ok = FALSE

ResolverIdle ==
    /\ r_pc = "idle" /\ r_soup = <<>> /\ r_selectors = <<>> /\ r_k = 0
    /\ r_evaluated = {} /\ r_ret = <<>>

Tier3Idle == t_pc = "idle" /\ t_site = "" /\ t_text = <<>> /\ t_out = <<>>

SinksIdle == s_client = FALSE /\ s_log = <<>>

---------------------------------------------------------------------------
(* main (lines 1136-1198) and the scrape_site it awaits (lines 275-327)    *)

\* sites_to_test (lines 1146-1151), the site keys
sites_to_test == <<"amazon", "flipkart", "meesho", "sathya">>

max_retries == 3

InLoop == site_i <= Len(sites)

site == sites[site_i]

\* n copies of a tier's name
Times(tier, n) == [k \in 1..n |-> tier]

Init ==
    /\ products = <<>>
    /\ appended_by = <<>>
    /\ pc = "main_loop"
    /\ site_i = 1
    /\ attempt = 0
    /\ result = NoResult
    /\ tiers_run = <<>>
    /\ scrape_base = 0
    /\ fetch = ""
    /\ e_calls = 0
    /\ e_fetched = <<>>
    /\ sites = sites_to_test
    /\ ValidationIdle /\ ResolverIdle /\ Tier3Idle /\ SinksIdle

\* the caller calls scrape_site (line 1158) with a configured site key
\* (line 277), and scrape_site reaches the fetch
BeginScrape ==
    /\ pc = "main_loop" /\ InLoop
    /\ site \in SiteKeys
    /\ tiers_run' = <<>>
    /\ scrape_base' = Len(products)

\* lines 277-278 without the raise: the unknown key goes on to the fetch,
\* which fails
UnknownSite_Fetches ==
    /\ pc = "main_loop" /\ InLoop
    /\ site \notin SiteKeys
    /\ tiers_run' = <<>>
    /\ scrape_base' = Len(products)
    /\ pc' = "returned"
    /\ result' = NoResult
    /\ fetch' = "failed"
    /\ UNCHANGED <<products, appended_by, site_i, attempt, e_calls, e_fetched>>
    /\ UNCHANGED <<sites, v_vars, r_vars, t_vars, s_vars>>

\* the site key is not in site_configs (lines 277-278): scrape_site raises
\* ValueError before it makes a crawler or a fetch
UnknownSite ==
    /\ pc = "main_loop" /\ InLoop
    /\ site \notin SiteKeys
    /\ tiers_run' = <<>>
    /\ scrape_base' = Len(products)
    /\ pc' = "raised"
    /\ result' = NoResult
    /\ fetch' = ""
    /\ UNCHANGED <<products, appended_by, site_i, attempt, e_calls, e_fetched>>
    /\ UNCHANGED <<sites, v_vars, r_vars, t_vars, s_vars>>

\* AsyncWebCrawler() cannot be entered (line 290, outside the try): the
\* exception leaves scrape_site
CrawlerFails ==
    /\ BeginScrape
    /\ pc' = "raised"
    /\ result' = NoResult
    /\ fetch' = "no_crawler"
    /\ UNCHANGED <<products, appended_by, site_i, attempt, e_calls, e_fetched>>
    /\ UNCHANGED <<sites, v_vars, r_vars, t_vars, s_vars>>

\* crawler.arun raises (line 293): caught at line 325
FetchRaises ==
    /\ BeginScrape
    /\ pc' = "returned"
    /\ result' = NoResult
    /\ fetch' = "raised"
    /\ UNCHANGED <<products, appended_by, site_i, attempt, e_calls, e_fetched>>
    /\ UNCHANGED <<sites, v_vars, r_vars, t_vars, s_vars>>

\* lines 301-303 without the return: a false success flag goes on to the
\* tiers with whatever html the result holds
FetchFails_RunsTiers ==
    /\ BeginScrape
    /\ \E res \in FetchResults(site) : result' = res
    /\ pc' = "tier1"
    /\ fetch' = "failed"
    /\ UNCHANGED <<products, appended_by, site_i, attempt, e_calls, e_fetched>>
    /\ UNCHANGED <<sites, v_vars, r_vars, t_vars, s_vars>>

\* result.success is false (lines 301-303)
FetchFails ==
    /\ BeginScrape
    /\ pc' = "returned"
    /\ result' = NoResult
    /\ fetch' = "failed"
    /\ UNCHANGED <<products, appended_by, site_i, attempt, e_calls, e_fetched>>
    /\ UNCHANGED <<sites, v_vars, r_vars, t_vars, s_vars>>

\* the page is loaded (line 305)
FetchSucceeds ==
    /\ BeginScrape
    /\ \E res \in FetchResults(site) : result' = res
    /\ pc' = "tier1"
    /\ fetch' = "loaded"
    /\ UNCHANGED <<products, appended_by, site_i, attempt, e_calls, e_fetched>>
    /\ UNCHANGED <<sites, v_vars, r_vars, t_vars, s_vars>>

\* what Tier 1 appends (lines 308-313)
Tier1Records(res, site_key) ==
    IF res.extracted_content # <<>>
    THEN parse_products_with_config(res.extracted_content, site_key)
    ELSE parse_products_from_html_with_config(res.html, site_key)

\* lines 308-316: Tier 1, then the test that decides on Tier 2
Tier1 ==
    /\ pc = "tier1"
    /\ LET new == Tier1Records(result, site)
       IN  /\ products' = products \o new
           /\ appended_by' = appended_by \o Times("tier1", Len(new))
           /\ pc' = IF NoProductsFor(products \o new, site) THEN "tier2" ELSE "returned"
    /\ tiers_run' = Append(tiers_run, "tier1")
    /\ UNCHANGED <<site_i, attempt, result, scrape_base, fetch, e_calls, e_fetched>>
    /\ UNCHANGED <<sites, v_vars, r_vars, t_vars, s_vars>>

\* lines 318-321: Tier 2, then the test that decides on Tier 3
Tier2 ==
    /\ pc = "tier2"
    /\ LET new == try_alternative_parsing(result.html, site)
       IN  /\ products' = products \o new
           /\ appended_by' = appended_by \o Times("tier2", Len(new))
           /\ pc' = IF NoProductsFor(products \o new, site) THEN "tier3" ELSE "returned"
    /\ tiers_run' = Append(tiers_run, "tier2")
    /\ UNCHANGED <<site_i, attempt, result, scrape_base, fetch, e_calls, e_fetched>>
    /\ UNCHANGED <<sites, v_vars, r_vars, t_vars, s_vars>>

\* line 323 with an assignment in place of the appends: the records of Tier 3
\* replace the collection
Tier3_Replaces ==
    /\ pc = "tier3"
    /\ LET new == try_aggressive_parsing(DocText(result.html), site)
       IN  /\ products' = new
           /\ appended_by' = Times("tier3", Len(new))
    /\ pc' = "returned"
    /\ tiers_run' = Append(tiers_run, "tier3")
    /\ UNCHANGED <<site_i, attempt, result, scrape_base, fetch, e_calls, e_fetched>>
    /\ UNCHANGED <<sites, v_vars, r_vars, t_vars, s_vars>>

\* line 323: Tier 3
Tier3 ==
    /\ pc = "tier3"
    /\ LET new == try_aggressive_parsing(DocText(result.html), site)
       IN  /\ products' = products \o new
           /\ appended_by' = appended_by \o Times("tier3", Len(new))
    /\ pc' = "returned"
    /\ tiers_run' = Append(tiers_run, "tier3")
    /\ UNCHANGED <<site_i, attempt, result, scrape_base, fetch, e_calls, e_fetched>>
    /\ UNCHANGED <<sites, v_vars, r_vars, t_vars, s_vars>>

\* the loop of line 1155 with one attempt more than max_retries
NextAttempt_OneMore ==
    IF attempt + 1 <= max_retries
    THEN attempt' = attempt + 1 /\ site_i' = site_i
    ELSE attempt' = 0 /\ site_i' = site_i + 1

\* the next turn of the loops of lines 1153 and 1155 after an attempt that
\* did not end the site
NextAttempt ==
    IF attempt + 1 < max_retries
    THEN attempt' = attempt + 1 /\ site_i' = site_i
    ELSE attempt' = 0 /\ site_i' = site_i + 1

\* lines 1161-1168 without the break of line 1164: the site is tried
\* max_retries times whatever it gave
AfterScrape_AlwaysRetries ==
    /\ pc = "returned"
    /\ NextAttempt
    /\ pc' = "main_loop"
    /\ UNCHANGED <<products, appended_by, result, tiers_run, scrape_base, fetch,
                   e_calls, e_fetched>>
    /\ UNCHANGED <<sites, v_vars, r_vars, t_vars, s_vars>>

\* scrape_site returned: lines 1161-1168
AfterScrape ==
    /\ pc = "returned"
    /\ IF CountSite(products, site) > 0
       THEN attempt' = 0 /\ site_i' = site_i + 1
       ELSE NextAttempt
    /\ pc' = "main_loop"
    /\ UNCHANGED <<products, appended_by, result, tiers_run, scrape_base, fetch,
                   e_calls, e_fetched>>
    /\ UNCHANGED <<sites, v_vars, r_vars, t_vars, s_vars>>

\* scrape_site raised: lines 1169-1174
AfterRaise ==
    /\ pc = "raised"
    /\ NextAttempt
    /\ pc' = "main_loop"
    /\ UNCHANGED <<products, appended_by, result, tiers_run, scrape_base, fetch,
                   e_calls, e_fetched>>
    /\ UNCHANGED <<sites, v_vars, r_vars, t_vars, s_vars>>

T_EmergencyPrefix ==  \* "Emergency Product - "
    <<"E", "m", "e", "r", "g", "e", "n", "c", "y", " ", "P", "r", "o", "d", "u", "c", "t",
      " ", "-", " ">>

T_EmergencyProduct ==  \* "Emergency Product"
    <<"E", "m", "e", "r", "g", "e", "n", "c", "y", " ", "P", "r", "o", "d", "u", "c", "t">>

T_ExampleDomain ==  \* "Example Domain"
    <<"E", "x", "a", "m", "p", "l", "e", " ", "D", "o", "m", "a", "i", "n">>

\* simple_urls (lines 500-503)
simple_urls == <<"https://httpbin.org/html", "https://example.com">>

\* what a fetch of emergency_extraction may give (line 508): an exception or
\* a false success flag, a true flag with an empty document, or a page with
\* or without a title element
EmergencyFetches ==
    {[success |-> FALSE, has_html |-> FALSE, has_title |-> FALSE, title |-> <<>>],
     [success |-> TRUE, has_html |-> FALSE, has_title |-> FALSE, title |-> <<>>],
     [success |-> TRUE, has_html |-> TRUE, has_title |-> FALSE, title |-> <<>>],
     [success |-> TRUE, has_html |-> TRUE, has_title |-> TRUE, title |-> <<>>],
     [success |-> TRUE, has_html |-> TRUE, has_title |-> TRUE, title |-> T_ExampleDomain]}

\* emergency_product (lines 513-529)
emergency_product(fetched, records) ==
    [index |-> Len(records) + 1,
     name |-> T_EmergencyPrefix
                \o (IF fetched.has_title THEN fetched.title ELSE T_EmergencyProduct),
     current_price |-> <<Rupee, "9", "9", "9">>,
     rating |-> <<"4", ".", "0">>,
     reviews |-> <<"E", "m", "e", "r", "g", "e", "n", "c", "y", " ",
                   "e", "x", "t", "r", "a", "c", "t", "i", "o", "n">>,
     site |-> "emergency"]

\* the loop of lines 505-537 without the break of line 533: every page
\* fetched makes a record
RECURSIVE EmergencyFrom_NoBreak(_, _, _)
EmergencyFrom_NoBreak(fetches, k, records) ==
    IF k > Len(simple_urls) THEN <<>>
    ELSE IF fetches[k].success /\ fetches[k].has_html
         THEN <<emergency_product(fetches[k], records)>>
                \o EmergencyFrom_NoBreak(fetches, k + 1, records)
         ELSE EmergencyFrom_NoBreak(fetches, k + 1, records)

\* the test of line 509 asking for a title element as well
FetchedPage_NeedsTitle(fetched) ==
    fetched.success /\ fetched.has_html /\ fetched.has_title

\* the test of line 509
FetchedPage(fetched) == fetched.success /\ fetched.has_html

\* the loop of lines 505-537 from url k on, given what each fetch gives:
\* the first page fetched makes the record and ends the loop
RECURSIVE EmergencyFrom(_, _, _)
EmergencyFrom(fetches, k, records) ==
    IF k > Len(simple_urls) THEN <<>>
    ELSE IF FetchedPage(fetches[k]) THEN <<emergency_product(fetches[k], records)>>
    ELSE EmergencyFrom(fetches, k + 1, records)

\* emergency_extraction (lines 494-540)
emergency_extraction(fetches, records) == EmergencyFrom(fetches, 1, records)

\* the fetches the loop of lines 505-537 makes from url k on: it stops after
\* the first page fetched (line 533)
RECURSIVE FetchesMade(_, _)
FetchesMade(fetches, k) ==
    IF k > Len(simple_urls) THEN <<>>
    ELSE IF FetchedPage(fetches[k]) THEN <<[url |-> simple_urls[k], got |-> fetches[k]]>>
    ELSE <<[url |-> simple_urls[k], got |-> fetches[k]]>> \o FetchesMade(fetches, k + 1)

\* lines 1179-1181 without the test of line 1179: the emergency extraction
\* whatever the collection holds
Emergency_Always ==
    /\ pc = "main_loop" /\ ~InLoop
    /\ \E fetches \in [1..Len(simple_urls) -> EmergencyFetches] :
          LET new == emergency_extraction(fetches, products)
          IN  /\ products' = products \o new
              /\ appended_by' = appended_by \o Times("emergency", Len(new))
              /\ e_fetched' = e_fetched \o FetchesMade(fetches, 1)
    /\ e_calls' = e_calls + 1
    /\ pc' = "summary"
    /\ UNCHANGED <<site_i, attempt, result, tiers_run, scrape_base, fetch>>
    /\ UNCHANGED <<sites, v_vars, r_vars, t_vars, s_vars>>

\* lines 1179-1181 with no product: the emergency extraction
Emergency ==
    /\ pc = "main_loop" /\ ~InLoop
    /\ Len(products) = 0
    /\ \E fetches \in [1..Len(simple_urls) -> EmergencyFetches] :
          LET new == emergency_extraction(fetches, products)
          IN  /\ products' = products \o new
              /\ appended_by' = appended_by \o Times("emergency", Len(new))
              /\ e_fetched' = e_fetched \o FetchesMade(fetches, 1)
    /\ e_calls' = e_calls + 1
    /\ pc' = "summary"
    /\ UNCHANGED <<site_i, attempt, result, tiers_run, scrape_base, fetch>>
    /\ UNCHANGED <<sites, v_vars, r_vars, t_vars, s_vars>>

\* line 1179 with a product: no emergency extraction
NoEmergency ==
    /\ pc = "main_loop" /\ ~InLoop
    /\ Len(products) # 0
    /\ pc' = "summary"
    /\ UNCHANGED <<products, appended_by, site_i, attempt, result, tiers_run, scrape_base,
                   fetch, e_calls, e_fetched>>
    /\ UNCHANGED <<sites, v_vars, r_vars, t_vars, s_vars>>

\* lines 1184-1198: print_summary and, with a client, save_to_supabase, which
\* read self.products and write nothing to it
Summary ==
    /\ pc = "summary"
    /\ pc' = "done"
    /\ UNCHANGED <<products, appended_by, site_i, attempt, result, tiers_run, scrape_base,
                   fetch, e_calls, e_fetched>>
    /\ UNCHANGED <<sites, v_vars, r_vars, t_vars, s_vars>>

Next ==
    \/ CrawlerFails \/ FetchRaises \/ FetchFails \/ FetchSucceeds
    \/ Tier1 \/ Tier2 \/ Tier3
    \/ AfterScrape \/ AfterRaise
    \/ Emergency \/ NoEmergency \/ Summary

Spec == Init /\ [][Next]_vars

---------------------------------------------------------------------------
(* Properties of a run of main                                             *)

\* scrape_site is under way, or has just returned to main
InScrape == pc \in {"tier1", "tier2", "tier3", "returned"}

\* the positions in the collection of the records the scrape_site under way
\* has appended
ScrapeRecords == (scrape_base + 1)..Len(products)

\* the tiers that appended the records of the scrape_site under way
ScrapeTiers == {appended_by[i] : i \in ScrapeRecords}

\* x is a prefix of y
IsPrefix(x, y) == Len(x) <= Len(y) /\ x = SubSeq(y, 1, Len(x))

\* C1: within one scrape of a site the tiers run in sequence; Tier 2 starts
\* only after Tier 1 has finished with zero records of the site in the
\* collection, Tier 3 only after Tier 2 has finished with still zero records
\* of the site, and no later tier runs once a tier has appended a record for
\* the site (so the records of one scrape come from the last tier that ran).
C1_TiersSequential ==
    /\ InScrape => IsPrefix(tiers_run, <<"tier1", "tier2", "tier3">>)
    /\ pc = "tier2" => tiers_run = <<"tier1">> /\ CountSite(products, site) = 0
    /\ pc = "tier3" => tiers_run = <<"tier1", "tier2">> /\ CountSite(products, site) = 0
    /\ InScrape =>
          \A i \in ScrapeRecords :
              /\ tiers_run # <<>>
              /\ appended_by[i] = tiers_run[Len(tiers_run)]
              /\ products[i].site = site

\* C1, witness: Tier 3 has run after two tiers that found nothing and has
\* appended a record
C1_Witness ==
    /\ pc = "returned"
    /\ tiers_run = <<"tier1", "tier2", "tier3">>
    /\ ScrapeRecords # {}

\* the page was fetched without pre-isolated fragments, product_selector
\* matches nothing in it, and a selector of try_alternative_parsing matches
C2_Page ==
    /\ InScrape /\ result.success
    /\ result.extracted_content = <<>>
    /\ Select(result.html.elements, product_selector(site)) = <<>>
    /\ FirstMatch(result.html.elements, alternative_selectors) # <<>>

\* C2 as stated: on such a page every record appended for the site during
\* the scrape comes from Tier 2, none from Tier 1 and none from Tier 3.
C2_OnlyTier2 == C2_Page => ScrapeTiers \subseteq {"tier2"}

\* C2, amended: when, besides, none of the five fallback selectors of
\* parse_products_from_html_with_config matches, Tier 1 contributes no record;
\* the records appended for the site come from Tier 2, or from Tier 3 when
\* Tier 2 appended none.
C2_Tier2OrTier3 ==
    (C2_Page /\ FirstMatch(result.html.elements, fallback_selectors) = <<>>) =>
        /\ "tier1" \notin ScrapeTiers
        /\ ScrapeTiers \subseteq {"tier2"} \/ ScrapeTiers \subseteq {"tier3"}
        /\ "tier3" \in ScrapeTiers => tiers_run = <<"tier1", "tier2", "tier3">>

\* C2, witness: on such a page, with no fallback selector matching, Tier 2
\* has appended a record and scrape_site has returned
C2_Witness ==
    /\ C2_Page /\ FirstMatch(result.html.elements, fallback_selectors) = <<>>
    /\ pc = "returned"
    /\ tiers_run = <<"tier1", "tier2">>
    /\ ScrapeRecords # {}

\* the page was fetched and neither product_selector nor any fallback
\* selector of Tier 1 or Tier 2 matches an element of it
C3_Page ==
    /\ InScrape /\ result.success
    /\ Select(result.html.elements, product_selector(site)) = <<>>
    /\ FirstMatch(result.html.elements, fallback_selectors) = <<>>
    /\ FirstMatch(result.html.elements, alternative_selectors) = <<>>

\* C3 as stated: the scrape of such a page appends zero records for the site,
\* whatever visible text the page holds.
C3_ZeroRecords == C3_Page => CountSite(products, site) = 0

\* C3, amended: the scrape of such a page appends no record of Tier 1 and no
\* record of Tier 2; the records it appends for the site are those Tier 3
\* parses out of the visible text, and scrape_site returns without raising
\* (it raises only when no page was fetched).
C3_OnlyTier3 ==
    /\ C3_Page =>
          /\ ScrapeTiers \subseteq {"tier3"}
          /\ pc = "returned" =>
                /\ tiers_run = <<"tier1", "tier2", "tier3">>
                /\ SubSeq(products, scrape_base + 1, Len(products))
                      = try_aggressive_parsing(DocText(result.html), site)
    /\ pc = "raised" => ~result.success /\ tiers_run = <<>>

\* C3, witness: such a page, holding elements that no selector matches, has
\* been through the three tiers and scrape_site has returned
C3_Witness ==
    /\ C3_Page
    /\ result.html.elements # <<>>
    /\ pc = "returned"
    /\ tiers_run = <<"tier1", "tier2", "tier3">>

\* C7: the name of every record in the session collection, whichever tier
\* appended it and the emergency record included, is non-empty, is not 'N/A',
\* has at least 5 characters, is not made of digits only and does not start
\* with the rupee sign.
C7_NamesValid ==
    \A i \in 1..Len(products) :
        LET name == products[i].name
        IN  /\ name # <<>>
            /\ name # <<"N", "/", "A">>
            /\ Len(name) >= 5
            /\ \E k \in 1..Len(name) : name[k] \notin Digits
            /\ name[1] # Rupee

\* C7, witness: the collection holds records appended by Tier 1, by Tier 2
\* and by Tier 3
C7_Witness ==
    {"tier1", "tier2", "tier3"} \subseteq {appended_by[i] : i \in 1..Len(products)}

\* C7, witness of the emergency record
C7_EmergencyWitness ==
    /\ pc = "done"
    /\ Len(products) = 1
    /\ products[1].site = "emergency"

\* C10: the session collection is append-only; across every step of a run
\* the previous contents remain a prefix of the new contents.
C10_AppendOnly == [][IsPrefix(products, products')]_vars

\* C10, witness: records of two sites are in the collection and the run has
\* gone through its last step
C10_Witness ==
    /\ pc = "done"
    /\ \E i, j \in 1..Len(products) : products[i].site # products[j].site


\* C11: emergency_extraction is called at most once in a run, and only when
\* every site has been processed and the collection holds no record. It
\* fetches the urls of simple_urls in their order, stops after the first
\* fetch that gives a page (a true success flag with a document), appends
\* exactly one record with site 'emergency' for that page, and never appends
\* more than one record.
C11_EmergencyOnce ==
    /\ [](/\ e_calls <= 1
          /\ e_calls = 0 => e_fetched = <<>>
          /\ e_calls = 1 => /\ ~InLoop
                            /\ \A i \in 1..Len(products) :
                                  /\ appended_by[i] = "emergency"
                                  /\ products[i].site = "emergency"
          /\ Len(e_fetched) <= Len(simple_urls)
          /\ \A k \in 1..Len(e_fetched) :
                /\ e_fetched[k].url = simple_urls[k]
                /\ k < Len(e_fetched)
                      => ~(e_fetched[k].got.success /\ e_fetched[k].got.has_html)
          /\ Len(products)
                = (IF e_calls = 0 THEN Len(products)
                   ELSE IF \E k \in 1..Len(e_fetched) :
                              e_fetched[k].got.success /\ e_fetched[k].got.has_html
                        THEN 1 ELSE 0)
          /\ (e_calls = 1 /\ Len(e_fetched) < Len(simple_urls)) => Len(products) = 1
          /\ \A i \in 1..Len(products) :
                products[i].site = "emergency" <=> appended_by[i] = "emergency")
    /\ [][e_calls' # e_calls
            => /\ e_calls = 0 /\ e_calls' = 1
               /\ site_i > Len(sites_to_test)
               /\ products = <<>>
               /\ Len(products') <= 1]_vars

\* the first url gave no page and the second did: one record
C11_Witness ==
    /\ e_calls = 1
    /\ Len(e_fetched) = 2
    /\ ~(e_fetched[1].got.success /\ e_fetched[1].got.has_html)
    /\ Len(products) = 1
    /\ products[1].site = "emergency"

\* the first url gave a page: the second is not fetched
C11_FirstPageWitness ==
    /\ e_calls = 1
    /\ Len(e_fetched) = 1
    /\ Len(products) = 1

\* C12: a run reaches the summary with an empty collection only if every
\* site left no record and every fetch of emergency_extraction failed to give
\* a page; when a fetch of emergency_extraction gives a page (a true success
\* flag with a document), the collection is not empty at the summary and at
\* the sink.
C12_EmptyOnlyIfAllFailed ==
    pc \in {"summary", "done"}
        => /\ products = <<>>
              => /\ \A k \in 1..Len(sites_to_test) :
                        CountSite(products, sites_to_test[k]) = 0
                 /\ e_calls = 1
                 /\ Len(e_fetched) = Len(simple_urls)
                 /\ \A k \in 1..Len(e_fetched) :
                        ~(e_fetched[k].got.success /\ e_fetched[k].got.has_html)
           /\ (\E k \in 1..Len(e_fetched) :
                  e_fetched[k].got.success /\ e_fetched[k].got.has_html)
              => products # <<>>

\* no site left a record and no url gave a page: the run ends empty
C12_Witness ==
    /\ pc = "done"
    /\ products = <<>>
    /\ e_calls = 1
    /\ Len(e_fetched) = Len(simple_urls)

\* scrape_site has ended on a fetch that gave no page
FetchFailed == pc \in {"returned", "raised"} /\ fetch # "loaded"

\* C13 as stated: a fetch failure in scrape_site, a false success flag or an
\* exception of the fetcher, runs no tier, leaves the collection as it was,
\* and scrape_site returns normally.
C13_ReturnsNormally ==
    FetchFailed => /\ tiers_run = <<>>
                   /\ Len(products) = scrape_base
                   /\ pc = "returned"

\* C13: a fetch failure in scrape_site runs no tier and leaves the collection
\* as it was. scrape_site returns normally when the success flag is false or
\* crawler.arun raises; when the crawler cannot be started the exception
\* leaves scrape_site, main catches it, and the attempt counts as one that
\* left no record.
C13_FetchFailureNoRecords ==
    /\ [](FetchFailed => /\ tiers_run = <<>>
                         /\ Len(products) = scrape_base
                         /\ fetch \in {"failed", "raised"} => pc = "returned"
                         /\ fetch = "no_crawler" => pc = "raised")
    /\ [][/\ (pc = "main_loop" /\ pc' \in {"returned", "raised"})
                => products' = products
          /\ pc = "raised"
                => /\ pc' = "main_loop"
                   /\ products' = products
                   /\ \/ site_i' = site_i /\ attempt' = attempt + 1
                      \/ site_i' = site_i + 1 /\ attempt' = 0]_vars

\* crawler.arun raised after an earlier site left records
C13_Witness ==
    /\ pc = "returned"
    /\ fetch = "raised"
    /\ tiers_run = <<>>
    /\ Len(products) > 0

\* the crawler could not be started after an earlier site left records
C13_RaisedWitness ==
    /\ pc = "raised"
    /\ fetch = "no_crawler"
    /\ Len(products) > 0

\* the positions of main and of the scrape_site it awaits
Positions ==
    {"main_loop", "tier1", "tier2", "tier3", "returned", "raised", "summary", "done"}

\* a step of main. Every action of Next moves pc, and one of them is enabled
\* at every position but "done" (their guards are the tests on pc, on InLoop
\* and on len(products), which leave no case out), so within Spec this is
\* <<Next>>_pc with its enabling condition written out
MainStep == pc # "done" /\ pc' \in Positions /\ pc' # pc

\* main is one sequential task: every call it awaits (crawler.arun, the
\* fixed sleeps of lines 1168 and 1174) returns or raises, after which main
\* takes its next step
FairSpec == Spec /\ WF_pc(MainStep)

\* C14: whatever the fetcher gives, the run terminates. A site is attempted
\* at most max_retries (3) times, an attempt is made only while the site has
\* no record, an attempt that leaves a record for the site is its last, the
\* attempts used up move main to the next site, no site is passed over
\* without an attempt, and the run always reaches the summary and ends.
C14_Terminates ==
    /\ [](/\ attempt \in 0..(max_retries - 1)
          /\ site_i \in 1..(Len(sites_to_test) + 1)
          /\ pc \in Positions
          /\ pc \in {"summary", "done"} => site_i = Len(sites_to_test) + 1)
    /\ [][/\ (pc = "main_loop" /\ pc' \in {"tier1", "returned", "raised"})
                => /\ InLoop
                   /\ CountSite(products, site) = 0
                   /\ site_i' = site_i /\ attempt' = attempt
          /\ site_i' # site_i
                => /\ site_i' = site_i + 1
                   /\ attempt' = 0
                   /\ pc \in {"returned", "raised"}
                   /\ CountSite(products, site) > 0 \/ attempt = max_retries - 1
          /\ (site_i' = site_i /\ attempt' # attempt)
                => /\ attempt' = attempt + 1
                   /\ pc \in {"returned", "raised"}
                   /\ CountSite(products, site) = 0
          /\ (pc = "returned" /\ CountSite(products, site) > 0)
                => site_i' = site_i + 1]_vars
    /\ <>(pc = "summary")
    /\ <>[](pc = "done")

\* the run has ended; one site used up its three attempts, another left a
\* record
C14_Witness ==
    /\ pc = "done"
    /\ CountSite(products, "amazon") = 0
    /\ CountSite(products, "flipkart") > 0

\* the third attempt of a site has returned without a record
C14_LastAttemptWitness ==
    /\ pc = "returned"
    /\ attempt = max_retries - 1
    /\ CountSite(products, site) = 0

\* Tier 1 has just ended in the scrape_site under way
AfterTier1 == tiers_run = <<"tier1">> /\ pc \in {"tier2", "returned"}

\* the fragments Tier 1 went through (lines 308-313, 546, 587)
Tier1Fragments ==
    IF result.extracted_content # <<>>
    THEN result.extracted_content
    ELSE ProductContainers(result.html, site)

\* the raw field map of fragment i is extracted without an exception and
\* validate_product_data accepts it
Tier1Passes(i) ==
    /\ ~Raises(Tier1Fragments[i])
    /\ validate_product_data(
           extract_product_data_with_config(Tier1Fragments[i], i, site), site)

\* the records the scrape_site under way has appended
NewRecords == SubSeq(products, scrape_base + 1, Len(products))

\* C15: in Tier 1 a fragment that fails validation, or whose extraction
\* raises, is not appended and does not end the pass: the next fragments are
\* still processed, and the records one pass appends are exactly those of the
\* fragments that pass validation.
C15_Tier1SkipsRejected ==
    AfterTier1
        => LET passing == {i \in 1..Len(Tier1Fragments) : Tier1Passes(i)}
           IN  /\ Len(NewRecords) = Cardinality(passing)
               /\ {NewRecords[j].index : j \in 1..Len(NewRecords)} = passing
               /\ \A j \in 1..Len(NewRecords) : appended_by[scrape_base + j] = "tier1"

\* a pass over five fragments: the second fails validation, the third raises,
\* the fourth is appended
C15_Witness ==
    /\ AfterTier1
    /\ Len(Tier1Fragments) = 5
    /\ ~Raises(Tier1Fragments[2]) /\ ~Tier1Passes(2)
    /\ Raises(Tier1Fragments[3])
    /\ Tier1Passes(4)
    /\ \E j \in 1..Len(NewRecords) : NewRecords[j].index = 4

\* C17: Tier 1 appends the accepted records in the order of their fragments;
\* the index of a record is the 1-based position of its fragment in the list
\* of fragments, so that the indexes of one pass increase strictly, with a
\* gap for every fragment that was skipped.
C17_Tier1Order ==
    AfterTier1
        => \A j \in 1..Len(NewRecords) :
              /\ NewRecords[j].index \in 1..Len(Tier1Fragments)
              /\ ~Raises(Tier1Fragments[NewRecords[j].index])
              /\ NewRecords[j]
                    = clean_product_data(
                          extract_product_data_with_config(
                              Tier1Fragments[NewRecords[j].index], NewRecords[j].index, site))
              /\ j > 1 => NewRecords[j - 1].index < NewRecords[j].index

\* two records with a gap between their indexes
C17_Witness ==
    /\ AfterTier1
    /\ Len(NewRecords) = 2
    /\ NewRecords[1].index = 1
    /\ NewRecords[2].index = 4
    /\ NewRecords[1].name # NewRecords[2].name

\* Tier 2 has just ended in the scrape_site under way
AfterTier2 == tiers_run = <<"tier1", "tier2">> /\ pc \in {"tier3", "returned"}

\* the queries of alternative_selectors that match an element of the page
MatchingQueries ==
    {k \in 1..Len(alternative_selectors) :
        Select(result.html.elements, alternative_selectors[k]) # <<>>}

\* the elements of the first query that matches
FirstMatched ==
    LET first == CHOOSE k \in MatchingQueries : \A j \in MatchingQueries : k <= j
    IN  Select(result.html.elements, alternative_selectors[first])

\* Tier 2 accepts element i of the first query that matches
Tier2Accepts(i) ==
    /\ Len(FirstMatched[i].text) >= BasicMinText
    /\ validate_product_data(
           extract_basic_product_data(FirstMatched[i].text, i, site), site)

\* C18: Tier 2 takes its queries in their order and commits to the first one
\* that matches an element: it processes the first ten matches of that query
\* at most, so that one pass appends ten records at most, and it tries no
\* other query, also when validation rejects every candidate.
C18_Tier2FirstQuery ==
    AfterTier2
        => IF MatchingQueries = {} THEN NewRecords = <<>>
           ELSE LET considered ==
                        {i \in 1..Len(FirstMatched) : i <= 10 /\ Tier2Accepts(i)}
                IN  /\ Len(NewRecords) <= 10
                    /\ Len(NewRecords) = Cardinality(considered)
                    /\ \A j \in 1..Len(NewRecords) :
                          /\ appended_by[scrape_base + j] = "tier2"
                          /\ NewRecords[j].index \in considered
                          /\ NewRecords[j]
                                = clean_product_data(
                                      extract_basic_product_data(
                                          FirstMatched[NewRecords[j].index].text,
                                          NewRecords[j].index, site))
                          /\ j > 1 => NewRecords[j - 1].index < NewRecords[j].index

\* eleven elements match the query and Tier 2 would accept the eleventh: ten
\* records
C18_Witness ==
    /\ AfterTier2
    /\ MatchingQueries # {}
    /\ Len(FirstMatched) = 11
    /\ Tier2Accepts(11)
    /\ Len(NewRecords) = 10

\* the candidate of the first query is rejected and a later query matches an
\* element Tier 2 would accept: no record
C18_RejectedWitness ==
    /\ AfterTier2
    /\ Cardinality(MatchingQueries) = 2
    /\ NewRecords = <<>>
    /\ \E k \in MatchingQueries :
          LET later == Select(result.html.elements, alternative_selectors[k])
          IN  validate_product_data(
                  extract_basic_product_data(later[1].text, 1, site), site)

\* the elements Tier 2 went through: the first ten of the first query that
\* matches (line 350)
Tier2Elements ==
    IF MatchingQueries = {} THEN <<>>
    ELSE SubSeq(FirstMatched, 1, IF Len(FirstMatched) < 10 THEN Len(FirstMatched) ELSE 10)

\* C19 as stated: Tier 2 runs the per-fragment pipeline of Tier 1; for every
\* element it goes through, the raw field map it builds is the one the
\* extraction of Tier 1 with the selectors of the site would build for that
\* element.
C19_SamePipeline ==
    AfterTier2
        => \A i \in 1..Len(Tier2Elements) :
              Len(Tier2Elements[i].text) >= 10
                  => extract_basic_product_data(Tier2Elements[i].text, i, site)
                        = extract_product_data_with_config(Tier2Elements[i], i, site)

\* C19: Tier 2 has the validation and the cleaning of Tier 1, not its
\* extraction. The raw field map of an element is built from the text of the
\* element alone: the name, the digits of the price and the rating of a
\* record Tier 2 appends are pieces of that text (or 'N/A'), its reviews are
\* always 'N/A', and the record is the cleaned map that
\* validate_product_data accepted.
C19_Tier2TextMap ==
    AfterTier2
        => \A j \in 1..Len(NewRecords) :
              LET record == NewRecords[j]
                  text == Tier2Elements[record.index].text
              IN  /\ Len(text) >= 10
                  /\ Contains(text, record.name)
                  /\ \/ record.current_price = NA
                     \/ /\ Head(record.current_price) = Rupee
                        /\ Contains(text, Tail(record.current_price))
                  /\ record.rating = NA \/ Contains(text, record.rating)
                  /\ record.reviews = NA
                  /\ record.site = site
                  /\ NameAccepted(record.name, site)

\* Tier 2 appended the record of an element for which the selectors of the
\* site give Tier 1 another name, a rating and reviews
C19_Witness ==
    /\ AfterTier2
    /\ \E j \in 1..Len(NewRecords) :
          LET record == NewRecords[j]
              tier1 == clean_product_data(
                           extract_product_data_with_config(
                               Tier2Elements[record.index], record.index, site))
          IN  /\ tier1.name # NA /\ tier1.name # record.name
              /\ tier1.reviews # NA
              /\ record.rating # NA

\* C25: in a run of main all the records of a site are appended during one
\* attempt and by one tier: records are appended for a site only while the
\* session holds none of that site, so two records of the same site were
\* appended by the same tier and their indices are distinct and strictly
\* increasing in the order of the session.
C25_OneAttemptOneTier ==
    /\ [](\A i, j \in 1..Len(products) :
             (i < j /\ products[i].site = products[j].site)
                 => /\ products[i].index < products[j].index
                    /\ appended_by[i] = appended_by[j]
                    /\ \A k \in i..j : products[k].site = products[i].site)
    /\ [][products' # products
            => /\ Len(products') > Len(products)
               /\ SubSeq(products', 1, Len(products)) = products
               /\ \A k \in (Len(products) + 1)..Len(products') :
                     /\ products'[k].site = products'[Len(products')].site
                     /\ appended_by'[k] = appended_by'[Len(products')]
                     /\ \A i \in 1..Len(products) :
                           products[i].site # products'[k].site]_vars

\* a finished run with several records of one site and records of another
\* site after them
C25_Witness ==
    /\ pc = "done"
    /\ \E i, j, k \in 1..Len(products) :
          /\ i < j /\ j < k
          /\ products[i].site = products[j].site
          /\ products[k].site # products[j].site
          /\ appended_by[k] # appended_by[j]

\* C26: in a run of main a record whose site is "emergency" is the only
\* record of the session and its index is 1: it is never in a collection
\* that holds a record of a real site.
C26_EmergencyAlone ==
    \A i \in 1..Len(products) :
        products[i].site = "emergency"
            => /\ Len(products) = 1
               /\ products[i].index = 1
               /\ appended_by = <<"emergency">>

\* the run ended with the emergency record
C26_Witness ==
    /\ pc = "done"
    /\ products # <<>>
    /\ products[1].site = "emergency"
    /\ products[1].index = 1

\* the run ended with records of real sites and no emergency extraction
C26_RealRecordsWitness ==
    /\ pc = "done"
    /\ e_calls = 0
    /\ Len(products) > 1
    /\ \A i \in 1..Len(products) : products[i].site \in SiteKeys

\* site lists with a key that site_configs does not hold, first and between
\* two configured keys
UnknownSiteLists == {<<"other", "amazon">>, <<"amazon", "other", "meesho">>}

\* main going through such a list
InitUnknownSite ==
    /\ products = <<>>
    /\ appended_by = <<>>
    /\ pc = "main_loop"
    /\ site_i = 1
    /\ attempt = 0
    /\ result = NoResult
    /\ tiers_run = <<>>
    /\ scrape_base = 0
    /\ fetch = ""
    /\ e_calls = 0
    /\ e_fetched = <<>>
    /\ sites \in UnknownSiteLists
    /\ ValidationIdle /\ ResolverIdle /\ Tier3Idle /\ SinksIdle

NextUnknownSite == Next \/ UnknownSite

SpecUnknownSite == InitUnknownSite /\ [][NextUnknownSite]_vars

\* each await of main returns (lines 1158, 1166, 1174, 1176, 1181) and the
\* run goes on to its next position
FairSpecUnknownSite == SpecUnknownSite /\ WF_pc(MainStep)

\* C27: scrape_site called with a site key that is not configured raises
\* before any fetch and leaves the collection as it was; in the loop of main
\* the error is caught at each attempt, the loop goes on with the next
\* attempt and, after the last one, with the next site, and the run reaches
\* its end.
C27_UnknownSiteCaught ==
    /\ [][(pc = "main_loop" /\ InLoop /\ site \notin SiteKeys)
            => /\ pc' = "raised"
               /\ fetch' = "" /\ result' = NoResult /\ tiers_run' = <<>>
               /\ products' = products
               /\ site_i' = site_i /\ attempt' = attempt]_vars
    /\ [][(pc = "raised" /\ site \notin SiteKeys)
            => /\ pc' = "main_loop"
               /\ products' = products
               /\ IF attempt < max_retries - 1
                  THEN site_i' = site_i /\ attempt' = attempt + 1
                  ELSE site_i' = site_i + 1 /\ attempt' = 0]_vars
    /\ [](pc = "raised" => (fetch = "no_crawler" \/ site \notin SiteKeys))
    /\ <>[](pc = "done")

\* the third attempt for the unknown key has raised while the session holds
\* the records of the site before it
C27_Witness ==
    /\ pc = "raised"
    /\ site \notin SiteKeys
    /\ fetch = ""
    /\ attempt = max_retries - 1
    /\ products # <<>>

\* the run ended with records of the site that comes after the unknown key
C27_NextSiteWitness ==
    /\ pc = "done"
    /\ sites = <<"amazon", "other", "meesho">>
    /\ \E i \in 1..Len(products) : products[i].site = "meesho"

\* the number of calls of scrape_site a session makes
MaxCalls == 2

\* the site keys the calls of a session are made with
SessionSites == {"amazon", "meesho"}

\* the sequences of calls: each entry is one call of scrape_site, and a key
\* met again is a second call for that site, whose page (a custom url) need
\* not be the one of the first
SessionCalls == UNION {[1..n -> SessionSites] : n \in 1..MaxCalls}

\* a session: an object just built (line 28) whose caller awaits one
\* scrape_site after the other
InitSession ==
    /\ products = <<>>
    /\ appended_by = <<>>
    /\ pc = "main_loop"
    /\ site_i = 1
    /\ attempt = 0
    /\ result = NoResult
    /\ tiers_run = <<>>
    /\ scrape_base = 0
    /\ fetch = ""
    /\ e_calls = 0
    /\ e_fetched = <<>>
    /\ sites \in SessionCalls
    /\ ValidationIdle /\ ResolverIdle /\ Tier3Idle /\ SinksIdle

\* scrape_site has returned or raised: the caller goes on to its next call
NextCall ==
    /\ pc \in {"returned", "raised"}
    /\ site_i' = site_i + 1
    /\ pc' = "main_loop"
    /\ UNCHANGED <<products, appended_by, attempt, result, tiers_run, scrape_base, fetch,
                   e_calls, e_fetched>>
    /\ UNCHANGED <<sites, v_vars, r_vars, t_vars, s_vars>>

NextSession ==
    \/ CrawlerFails \/ FetchRaises \/ FetchFails \/ FetchSucceeds
    \/ Tier1 \/ Tier2 \/ Tier3
    \/ NextCall

SpecSession == InitSession /\ [][NextSession]_vars

\* C23 as stated: in every sequence of calls of scrape_site on one session,
\* calls for the same site again included, a call whose fetch succeeds and
\* whose Tier 1 appends no record runs Tier 2: the escalation depends on what
\* Tier 1 gave in this call, not on the records the session already held.
C23_EscalatesOnEmptyTier1 ==
    (pc = "returned" /\ fetch = "loaded" /\ Len(products) = scrape_base)
        => \E k \in 1..Len(tiers_run) : tiers_run[k] = "tier2"

---------------------------------------------------------------------------
(* validate_product_data and clean_product_data alone (lines 907-1008):    *)
(* a caller validates a raw field map, then cleans the cleaned map again   *)

MaxPrefixes == 2

MaxTextLen == 3

T_Noise ==  \* "Noise ColorFit Pulse 2 Smartwatch"
    <<"N", "o", "i", "s", "e", " ", "C", "o", "l", "o", "r", "F", "i", "t", " ",
      "P", "u", "l", "s", "e", " ", "2", " ", "S", "m", "a", "r", "t", "w", "a", "t", "c", "h">>

T_PriceTaxes ==  \* "₹ 12,999 (incl. taxes)"
    <<Rupee, " ", "1", "2", ",", "9", "9", "9", " ", "(", "i", "n", "c", "l", ".", " ",
      "t", "a", "x", "e", "s", ")">>

T_NoPrice == <<"n", "o", " ", "p", "r", "i", "c", "e">>  \* "no price"

T_Digits == <<"1", "2", "3", "4", "5">>  \* "12345"

T_Rupee499 == <<Rupee, "4", "9", "9">>  \* "₹499"

\* what follows the boilerplate at the head of a raw name
NameCores ==
    {<<>>, NA, <<"a", "b">>, <<"V", "i", "v", "o">>, <<" ", "P", "h", "o", "n", "e">>,
     T_Vivo, T_Digits, T_Rupee499, T_Price, T_Noise}

\* the raw names: up to MaxPrefixes boilerplate texts, then a core; an
\* extractor hands over a name that is stripped and not empty
RawNames ==
    LET heads == UNION {[1..k -> 1..Len(BoilerplateNames)] : k \in 0..MaxPrefixes}
        head(h) == Concat([k \in 1..Len(h) |-> BoilerplateNames[h[k]]])
        all == {head(h) \o core : h \in heads, core \in NameCores}
    IN  {name \in all : name # <<>> /\ Strip(name) = name}

\* the raw texts of the price, rating and reviews fields: every stripped text
\* of up to MaxTextLen of these characters, and the texts of the examples
RawTexts ==
    LET alphabet == {Rupee, "1", ",", ".", " ", "a"}
        all == UNION {[1..k -> alphabet] : k \in 1..MaxTextLen}
    IN  {text \in all : Strip(text) = text} \cup {T_PriceTaxes, T_NoPrice, NA, T_Price}

\* the site keys validate_product_data is called with, and one that is not
\* configured
ValidationSites == SiteKeys \cup {"other"}

RawMap(name, price, rating, reviews, site_key) ==
    [index |-> 1, name |-> name, current_price |-> price, rating |-> rating,
     reviews |-> reviews, site |-> site_key]

\* the raw field maps: a raw name with the fields of a listing, or a raw text
\* in each of the three other fields
RawMaps(site_key) ==
    {RawMap(name, T_Price, T_Stars, T_Ratings, site_key) : name \in RawNames}
        \cup {RawMap(T_Samsung, text, text, text, site_key) : text \in RawTexts}

InitValidation ==
    /\ MainIdle /\ ResolverIdle /\ Tier3Idle /\ SinksIdle
    /\ v_pc = "start"
    /\ v_site \in ValidationSites
    /\ v_raw \in RawMaps(v_site)
    /\ v_once = v_raw
    /\ v_twice = v_raw
    /\ v_ok = FALSE

\* the call of lines 551, 591, 354 or 396: validate_product_data cleans the
\* map it is given in place (line 956) and answers
Validate ==
    /\ v_pc = "start"
    /\ v_once' = clean_product_data(v_raw)
    /\ v_ok' = validate_product_data(v_raw, v_site)
    /\ v_pc' = "validated"
    /\ UNCHANGED <<v_site, v_raw, v_twice>>
    /\ UNCHANGED <<main_vars, r_vars, t_vars, s_vars>>

\* clean_product_data applied to the cleaned map
CleanAgain ==
    /\ v_pc = "validated"
    /\ v_twice' = clean_product_data(v_once)
    /\ v_pc' = "recleaned"
    /\ UNCHANGED <<v_site, v_raw, v_once, v_ok>>
    /\ UNCHANGED <<main_vars, r_vars, t_vars, s_vars>>

NextValidation == Validate \/ CleanAgain

SpecValidation == InitValidation /\ [][NextValidation]_vars

\* C6 as stated: a second clean_product_data leaves name, current price,
\* rating and reviews as the first left them, for any raw field map.
C6_CleanIdempotent ==
    v_pc = "recleaned" =>
        /\ v_twice.name = v_once.name
        /\ v_twice.current_price = v_once.current_price
        /\ v_twice.rating = v_once.rating
        /\ v_twice.reviews = v_once.reviews

\* the minimum length of lines 987, 992, 997 and 1005 for a site key
C8_SiteMinimum(site_key) ==
    CASE site_key = "amazon" -> AmazonMinLen
      [] site_key = "flipkart" -> FlipkartMinLen
      [] site_key = "sathya" -> SathyaMinLen
      [] site_key = "meesho" -> MeeshoMinLen
      [] OTHER -> 0

C9_PriceCleaning ==
    v_pc # "start" =>
        LET raw == v_raw.current_price
            inRun == {i \in 1..Len(raw) : raw[i] \in Digits \cup {","}}
            first == CHOOSE i \in inRun : \A j \in inRun : i <= j
            last == CHOOSE j \in first..Len(raw) :
                        /\ \A k \in first..j : k \in inRun
                        /\ j + 1 \notin inRun
        IN  /\ inRun = {} => v_once.current_price = <<"N", "/", "A">>
            /\ inRun # {} => v_once.current_price = <<Rupee>> \o SubSeq(raw, first, last)
            /\ raw = T_PriceTaxes => v_once.current_price = T_Price
            /\ raw = T_NoPrice => v_once.current_price = <<"N", "/", "A">>

\* C9, witness: "₹ 12,999 (incl. taxes)" has been cleaned to "₹12,999"
C9_Witness ==
    /\ v_pc = "validated"
    /\ v_raw.current_price = T_PriceTaxes
    /\ v_once.current_price = T_Price


---------------------------------------------------------------------------
(* extract_with_multiple_selectors alone (lines 752-776), one turn of its  *)
(* loop at a time                                                          *)

MaxSelectors == 3

T_Alpha == <<"A", "l", "p", "h", "a">>  \* "Alpha"

T_RatingsNode ==  \* "4.2 Ratings"
    <<"4", ".", "2", " ", "R", "a", "t", "i", "n", "g", "s">>

T_RatingsParent ==  \* "4.2 Ratings & 10 Reviews"
    <<"4", ".", "2", " ", "R", "a", "t", "i", "n", "g", "s", " ", "&", " ",
      "1", "0", " ", "R", "e", "v", "i", "e", "w", "s">>

\* the selectors of the lists: two structural ones and one with :contains
ResolverSelectors ==
    {Css("h2"), Css("span.price"), ContainsSel("span:contains(\"Ratings\")", RatingsUpper)}

\* the ordered selector lists of up to MaxSelectors selectors
SelectorLists == UNION {[1..k -> ResolverSelectors] : k \in 0..MaxSelectors}

\* what get_text(strip=True) of an element select_one found may be
ElementTexts == {<<>>, NA, T_Alpha, T_Price}

\* the fragments: each of the two elements is absent or holds one of the
\* texts, and the text node "4.2 Ratings" is there or not
ResolverFragments ==
    LET maps == UNION {[keys -> ElementTexts] : keys \in SUBSET {"h2", "span.price"}}
        nodes == {<<>>, <<[text |-> T_RatingsNode, parent |-> T_RatingsParent]>>}
    IN  {[css |-> m, strings |-> n] : m \in maps, n \in nodes}

InitResolver ==
    /\ MainIdle /\ ValidationIdle /\ Tier3Idle /\ SinksIdle
    /\ r_pc = "loop"
    /\ r_soup \in ResolverFragments
    /\ r_selectors \in SelectorLists
    /\ r_k = 1
    /\ r_evaluated = {}
    /\ r_ret = <<>>

\* a turn of the loop that returns (lines 764 and 772)
SelectorHit ==
    /\ r_pc = "loop" /\ r_k <= Len(r_selectors)
    /\ SelectorReturns(r_soup, r_selectors[r_k])
    /\ r_evaluated' = r_evaluated \cup {r_k}
    /\ r_ret' = SelectorText(r_soup, r_selectors[r_k])
    /\ r_pc' = "returned"
    /\ UNCHANGED <<r_soup, r_selectors, r_k>>
    /\ UNCHANGED <<main_vars, v_vars, t_vars, s_vars>>

\* a turn of the loop that goes on to the next selector
SelectorMiss ==
    /\ r_pc = "loop" /\ r_k <= Len(r_selectors)
    /\ ~SelectorReturns(r_soup, r_selectors[r_k])
    /\ r_evaluated' = r_evaluated \cup {r_k}
    /\ r_k' = r_k + 1
    /\ UNCHANGED <<r_pc, r_soup, r_selectors, r_ret>>
    /\ UNCHANGED <<main_vars, v_vars, t_vars, s_vars>>

\* the list is exhausted: return 'N/A' (line 776)
SelectorsExhausted ==
    /\ r_pc = "loop" /\ r_k > Len(r_selectors)
    /\ r_ret' = NA
    /\ r_pc' = "returned"
    /\ UNCHANGED <<r_soup, r_selectors, r_k, r_evaluated>>
    /\ UNCHANGED <<main_vars, v_vars, t_vars, s_vars>>

NextResolver == SelectorHit \/ SelectorMiss \/ SelectorsExhausted

SpecResolver == InitResolver /\ [][NextResolver]_vars

\* the text selector k of the list yields on the fragment: the text of the
\* element it selects, or of the parent of the first text node that holds
\* its :contains text; <<>> when it selects nothing
C5_Text(k) ==
    LET q == r_selectors[k].q
        find == r_selectors[k].text_to_find
        found == {n \in 1..Len(r_soup.strings) : SearchI(r_soup.strings[n].text, find)}
    IN  IF find # <<>>
        THEN (IF found = {} THEN <<>>
              ELSE r_soup.strings[CHOOSE n \in found : \A m \in found : n <= m].parent)
        ELSE (IF q \in DOMAIN r_soup.css THEN r_soup.css[q] ELSE <<>>)

\* what the function has returned and evaluated, the selectors in `yielding`
\* being those that yield a text
C5_FirstOf(yielding) ==
    IF yielding = {}
    THEN r_ret = <<"N", "/", "A">> /\ r_evaluated = 1..Len(r_selectors)
    ELSE LET first == CHOOSE k \in yielding : \A j \in yielding : k <= j
         IN  r_ret = C5_Text(first) /\ r_evaluated = 1..first

\* C5 as stated: the function returns the text of the first selector in list
\* order that yields non-empty text, evaluates no selector after it, and
\* returns 'N/A' when no selector yields text.
C5_FirstNonEmpty ==
    r_pc = "returned" =>
        C5_FirstOf({k \in 1..Len(r_selectors) : C5_Text(k) # <<>>})

\* C5, amended: the function returns the text of the first selector in list
\* order that yields non-empty text other than the literal 'N/A' from the
\* element it selects (a structural selector whose element reads 'N/A' is
\* passed over like one that yields nothing), evaluates no selector after it,
\* and returns 'N/A' when no selector yields such text.
C5_FirstUsable ==
    r_pc = "returned" =>
        /\ C5_FirstOf({k \in 1..Len(r_selectors) :
                          /\ C5_Text(k) # <<>>
                          /\ r_selectors[k].text_to_find = <<>>
                                => C5_Text(k) # <<"N", "/", "A">>})
        /\ r_ret = extract_with_multiple_selectors(r_soup, r_selectors)

\* C5, witness: the function has returned the text of the second selector of
\* three, the first yielding nothing and the third yielding another text
C5_Witness ==
    /\ r_pc = "returned"
    /\ Len(r_selectors) = 3
    /\ r_evaluated = {1, 2}
    /\ C5_Text(1) = <<>>
    /\ C5_Text(3) \notin {<<>>, <<"N", "/", "A">>, r_ret}
    /\ r_ret = C5_Text(2)


---------------------------------------------------------------------------
(* Tier 3 alone: try_aggressive_parsing on a visible text, and             *)
(* extract_from_text_chunk on a chunk (lines 362-449)                      *)

MaxLines == 4

T_Rupee799 == <<Rupee, "7", "9", "9">>  \* "₹799"

T_WirelessMouse ==  \* "Wireless Mouse"
    <<"W", "i", "r", "e", "l", "e", "s", "s", " ", "M", "o", "u", "s", "e">>

T_OutOf5 ==  \* "4.2 out of 5"
    <<"4", ".", "2", " ", "o", "u", "t", " ", "o", "f", " ", "5">>

T_230Ratings ==  \* "230 ratings"
    <<"2", "3", "0", " ", "r", "a", "t", "i", "n", "g", "s">>

T_PriceOnly ==  \* "₹12,999 only"
    <<Rupee, "1", "2", ",", "9", "9", "9", " ", "o", "n", "l", "y">>

\* the lines of the visible texts
TextLinePool == {T_Rupee799, T_WirelessMouse, T_OutOf5, T_230Ratings, T_PriceOnly}

\* the visible texts: up to MaxLines lines of the pool
VisibleTexts == {JoinLines(ls) : ls \in UNION {[1..k -> TextLinePool] : k \in 1..MaxLines}}

MaxSegmentLines == 7

\* longer visible texts, of a line with an amount and a line without a digit
SegmentTexts ==
    {JoinLines(ls) : ls \in UNION {[1..k -> {T_PriceOnly, T_WirelessMouse}] :
                                      k \in (MaxLines + 1)..MaxSegmentLines}}

T_MouseM235 ==  \* "Mouse M235 wireless"
    <<"M", "o", "u", "s", "e", " ", "M", "2", "3", "5", " ",
      "w", "i", "r", "e", "l", "e", "s", "s">>

T_LogitechMouse ==  \* "Logitech Wireless Mouse"
    <<"L", "o", "g", "i", "t", "e", "c", "h", " ",
      "W", "i", "r", "e", "l", "e", "s", "s", " ", "M", "o", "u", "s", "e">>

\* "Wireless Mouse Wireless Mouse ... Wireless Mouse", 119 characters
T_LongLine ==
    LET spaced == [k \in 1..8 |-> T_WirelessMouse \o <<" ">>]
    IN  Strip(Concat(spaced))

\* a few more visible texts: more chunks than Tier 3 processes; a chunk of
\* fewer than 20 characters before a longer one; a chunk whose first line is
\* followed by two longer lines, the second of them the longest; a chunk with
\* a line of more than 100 characters
MoreTexts ==
    {JoinLines([k \in 1..(2 * (Tier3ChunkLimit + 2)) |->
                   IF k % 2 = 1 THEN T_PriceOnly ELSE T_WirelessMouse]),
     JoinLines(<<T_MouseM235, T_PriceOnly, T_WirelessMouse, T_PriceOnly>>),
     JoinLines(<<T_Rupee799, T_WirelessMouse, T_LogitechMouse>>),
     JoinLines(<<T_Rupee799, T_LongLine>>)}

InitTier3 ==
    /\ MainIdle /\ ValidationIdle /\ ResolverIdle /\ SinksIdle
    /\ t_pc = "start"
    /\ t_site \in {"amazon", "flipkart"}
    /\ t_text \in VisibleTexts \cup SegmentTexts \cup MoreTexts
    /\ t_out = <<>>

\* try_aggressive_parsing on a document whose visible text is t_text: the
\* records it appends
RunTier3 ==
    /\ t_pc = "start"
    /\ t_out' = try_aggressive_parsing(t_text, t_site)
    /\ t_pc' = "tier3_done"
    /\ UNCHANGED <<t_site, t_text>>
    /\ UNCHANGED <<main_vars, v_vars, r_vars, s_vars>>

\* the call of line 395 with t_text as the chunk: the dictionary returned
ParseChunk ==
    /\ t_pc = "start"
    /\ t_out' = IF ChunkIsNone(t_text) THEN <<>>
                ELSE <<extract_from_text_chunk(t_text, 1, t_site)>>
    /\ t_pc' = "chunk_done"
    /\ UNCHANGED <<t_site, t_text>>
    /\ UNCHANGED <<main_vars, v_vars, r_vars, s_vars>>

\* the loop of lines 379-390 on the lines of t_text: product_chunks and
\* current_chunk when it ends
SegmentText ==
    /\ t_pc = "start"
    /\ t_out' = [product_chunks |-> Segment(TextLines(t_text)),
                 current_chunk |-> CurrentChunkFrom(TextLines(t_text), 1, <<>>)]
    /\ t_pc' = "segmented"
    /\ UNCHANGED <<t_site, t_text>>
    /\ UNCHANGED <<main_vars, v_vars, r_vars, s_vars>>

NextTier3 == RunTier3 \/ ParseChunk \/ SegmentText

SpecTier3 == InitTier3 /\ [][NextTier3]_vars

\* C4 as stated: Tier 3 run on a document whose visible text is the four
\* lines "₹799", "Wireless Mouse", "4.2 out of 5", "230 ratings" yields a
\* record with current price ₹799, rating 4.2, reviews derived from
\* "230 ratings" and a name containing "Wireless Mouse".
C4_MouseRecord ==
    (t_pc = "tier3_done" /\ t_text = T_Mouse) =>
        \E i \in 1..Len(t_out) :
            /\ t_out[i].current_price = T_Rupee799
            /\ t_out[i].rating = <<"4", ".", "2">>
            /\ t_out[i].reviews \in {T_230Ratings, <<"2", "3", "0">>}
            /\ \E k \in 1..Len(t_out[i].name) :
                  /\ k + Len(T_WirelessMouse) - 1 <= Len(t_out[i].name)
                  /\ SubSeq(t_out[i].name, k, k + Len(T_WirelessMouse) - 1) = T_WirelessMouse

\* the chunks the loop of lines 379-390 has made of the lines of t_text, as
\* lists of lines: those it emitted and the one still open at the end
ChunksMade ==
    [i \in 1..Len(t_out.product_chunks) |-> SplitLines(t_out.product_chunks[i])]
        \o (IF t_out.current_chunk = <<>> THEN <<>> ELSE <<t_out.current_chunk>>)

\* the positions of the anchor lines among the lines of t_text
AnchorLines == {k \in 1..Len(TextLines(t_text)) : IsAnchor(TextLines(t_text)[k])}

\* C20: for every sequence of text lines, the segmentation of Tier 3 starts a
\* new chunk at every anchor line, the first line of every chunk is an anchor
\* line, and a chunk is its anchor line followed by at most four lines that
\* are not anchors: a chunk never has more than five lines.
C20_ChunksAnchored ==
    t_pc = "segmented"
        => LET lines == TextLines(t_text)
               anchors == AnchorLines
               chunks == ChunksMade
           IN  /\ Len(chunks) = Cardinality(anchors)
               /\ \A c \in 1..Len(chunks) :
                     LET chunk == chunks[c]
                         k == CHOOSE k \in anchors :
                                  Cardinality({j \in anchors : j <= k}) = c
                         following == {j \in anchors \cup {Len(lines) + 1} : j > k}
                         next == CHOOSE j \in following : \A i \in following : j <= i
                     IN  /\ IsAnchor(chunk[1])
                         /\ Len(chunk) <= 5
                         /\ \A n \in 2..Len(chunk) : ~IsAnchor(chunk[n])
                         /\ chunk = SubSeq(lines, k, k + Len(chunk) - 1)
                         /\ Len(chunk) = (IF next - k < 5 THEN next - k ELSE 5)

\* an anchor line followed by six lines that are not anchors: a chunk of five
\* lines, the two lines after it in no chunk
C20_Witness ==
    /\ t_pc = "segmented"
    /\ Len(TextLines(t_text)) = 7
    /\ AnchorLines = {1}
    /\ Len(ChunksMade) = 1
    /\ Len(ChunksMade[1]) = 5

\* two anchor lines in a row, then lines that are not anchors
C20_TwoAnchorsWitness ==
    /\ t_pc = "segmented"
    /\ {1, 2} \subseteq AnchorLines
    /\ Len(ChunksMade) >= 2
    /\ Len(ChunksMade[1]) = 1
    /\ Len(ChunksMade[2]) > 1

\* product_chunks for the visible text t_text (lines 372-390)
ChunksOfText == Segment(TextLines(t_text))

\* Tier 3 would accept chunk i of ChunksOfText if it parsed it
ChunkWouldPass(i) ==
    validate_product_data(extract_from_text_chunk(ChunksOfText[i], i, t_site), t_site)

\* C21: Tier 3 considers the first twenty chunks of the segmentation only and
\* parses a chunk only when it is longer than twenty characters: one pass
\* appends twenty records at most, each from a chunk of its own among the
\* first twenty, and none from a chunk of twenty characters or fewer.
C21_Tier3Limits ==
    t_pc = "tier3_done"
        => /\ Len(t_out) <= 20
           /\ \A j \in 1..Len(t_out) :
                 /\ t_out[j].index \in 1..Len(ChunksOfText)
                 /\ t_out[j].index <= 20
                 /\ Len(ChunksOfText[t_out[j].index]) > 20
                 /\ j > 1 => t_out[j - 1].index < t_out[j].index

\* more than twenty chunks, the twenty-first as good as the others: twenty
\* records
C21_Witness ==
    /\ t_pc = "tier3_done"
    /\ Len(ChunksOfText) > 20
    /\ Len(ChunksOfText[21]) > 20
    /\ ChunkWouldPass(21)
    /\ Len(t_out) = 20

\* a chunk of fewer than twenty characters that validation would accept, and
\* no record for it
C21_ShortChunkWitness ==
    /\ t_pc = "tier3_done"
    /\ Len(ChunksOfText) = 2
    /\ Len(ChunksOfText[1]) <= 20
    /\ ChunkWouldPass(1)
    /\ Len(t_out) = 1
    /\ t_out[1].index = 2

\* C22: for every chunk, the name Tier 3 chooses is the first line of the
\* chunk, unless a later line is longer than the first line and starts
\* neither with ₹ nor with a digit; the name is then the first such line in
\* the order of the lines, not the longest one. (The line chosen is stored
\* cut to 100 characters.)
C22_ChunkNameFirstLater ==
    (t_pc = "chunk_done" /\ t_out # <<>>)
        => LET lines == StrippedLines(t_text)
               later == {k \in 2..Len(lines) :
                            /\ Len(lines[k]) > Len(lines[1])
                            /\ lines[k][1] # Rupee
                            /\ lines[k][1] \notin {"0", "1", "2", "3", "4", "5", "6", "7", "8", "9"}}
               chosen == IF later = {} THEN lines[1]
                         ELSE lines[CHOOSE k \in later : \A j \in later : k <= j]
           IN  t_out[1].name = SubSeq(chosen, 1, IF Len(chosen) < 100 THEN Len(chosen) ELSE 100)

\* a chunk of three lines: the second and the third are both longer than the
\* first, the third is the longest, the name is the second
C22_Witness ==
    /\ t_pc = "chunk_done"
    /\ t_text = JoinLines(<<T_Rupee799, T_WirelessMouse, T_LogitechMouse>>)
    /\ t_out # <<>>
    /\ t_out[1].name = T_WirelessMouse

\* a chunk with no later line to prefer: the name is the first line
C22_FirstLineWitness ==
    /\ t_pc = "chunk_done"
    /\ t_text = JoinLines(<<T_WirelessMouse, T_Rupee799, T_OutOf5>>)
    /\ t_out # <<>>
    /\ t_out[1].name = T_WirelessMouse

\* a chunk whose preferred line has more than 100 characters
C22_LongLineWitness ==
    /\ t_pc = "chunk_done"
    /\ t_text = JoinLines(<<T_Rupee799, T_LongLine>>)
    /\ t_out # <<>>
    /\ Len(t_out[1].name) = 100

\* C24 as stated: the segmentation of Tier 3 loses no chunk. Every chunk
\* started by an anchor line, the chunk still open when the last line has
\* been read included, is in the list of chunks handed to per-chunk parsing.
C24_NoChunkLost ==
    t_pc = "segmented"
        => /\ t_out.current_chunk = <<>>
           /\ Len(t_out.product_chunks) = Cardinality(AnchorLines)

---------------------------------------------------------------------------
(* The sinks alone: save_to_json, save_to_csv and save_to_supabase (lines  *)
(* 1010-1107) called in any order on a collection                          *)

MaxSinkCalls == 3

\* the collections the sinks are called on
SinkCollections ==
    LET records == parse_products_with_config(<<GoodListing, ShortListing>>, "flipkart")
    IN  {SubSeq(records, 1, n) : n \in 0..Len(records)}

InitSinks ==
    /\ products \in SinkCollections
    /\ appended_by = Times("tier1", Len(products))
    /\ pc = "idle" /\ site_i = 0 /\ attempt = 0 /\ result = NoResult
    /\ tiers_run = <<>> /\ scrape_base = 0
    /\ fetch = "" /\ e_calls = 0 /\ e_fetched = <<>> /\ sites = <<>>
    /\ s_client \in BOOLEAN
    /\ s_log = <<>>
    /\ ValidationIdle /\ ResolverIdle /\ Tier3Idle

\* a call of a sink: what it did, and the number of records it wrote
SinkCall(sink, outcome) ==
    /\ Len(s_log) < MaxSinkCalls
    /\ s_log' = Append(s_log, [sink |-> sink, outcome |-> outcome,
                               rows |-> IF outcome = "saved" THEN Len(products) ELSE 0])

\* save_to_csv with a loop that takes the records out of self.products as it
\* writes them
SaveToCsv_Drains ==
    /\ \E outcome \in (IF products = <<>> THEN {"nothing"} ELSE {"saved", "raised"}) :
          SinkCall("csv", outcome)
    /\ products' = <<>>
    /\ appended_by' = <<>>
    /\ UNCHANGED <<pc, site_i, attempt, result, tiers_run, scrape_base, fetch,
                   e_calls, e_fetched, sites, s_client>>
    /\ UNCHANGED <<v_vars, r_vars, t_vars>>

\* save_to_json (lines 1010-1020): json.dump of self.products to the file,
\* or the exception of open or of the write, which nothing catches
SaveToJson ==
    /\ \E outcome \in {"saved", "raised"} : SinkCall("json", outcome)
    /\ UNCHANGED <<main_vars, s_client>>
    /\ UNCHANGED <<v_vars, r_vars, t_vars>>

\* save_to_csv (lines 1022-1058): nothing is written for an empty collection
\* (lines 1028-1030); otherwise one row per record, or the exception of open
\* or of the write
SaveToCsv ==
    /\ \E outcome \in (IF products = <<>> THEN {"nothing"} ELSE {"saved", "raised"}) :
          SinkCall("csv", outcome)
    /\ UNCHANGED <<main_vars, s_client>>
    /\ UNCHANGED <<v_vars, r_vars, t_vars>>

\* save_to_supabase (lines 1060-1107): False without a client (lines
\* 1062-1064) and for an empty collection (lines 1066-1068); otherwise the
\* insert, which saves the rows, returns no data, or raises (caught at line
\* 1105)
SaveToSupabase ==
    /\ \E outcome \in (IF ~s_client THEN {"no_client"}
                        ELSE IF products = <<>> THEN {"nothing"}
                        ELSE {"saved", "failed", "raised"}) :
          SinkCall("supabase", outcome)
    /\ UNCHANGED <<main_vars, s_client>>
    /\ UNCHANGED <<v_vars, r_vars, t_vars>>

NextSinks == SaveToJson \/ SaveToCsv \/ SaveToSupabase

SpecSinks == InitSinks /\ [][NextSinks]_vars

\* C16: a call of a sink, whether it writes or fails, leaves the collection
\* as it was, and after a sink has failed the other sinks can still be called
\* and write the whole collection.
C16_SinksReadOnly ==
    /\ [][products' = products /\ appended_by' = appended_by]_vars
    /\ [](\A k \in 1..Len(s_log) :
             s_log[k].outcome = "saved" => s_log[k].rows = Len(products))
    /\ [](Len(s_log) < MaxSinkCalls
             => ENABLED SaveToJson /\ ENABLED SaveToCsv /\ ENABLED SaveToSupabase)

\* save_to_json raised, then save_to_csv wrote the two records, then
\* save_to_supabase failed
C16_Witness ==
    /\ Len(products) = 2
    /\ Len(s_log) = 3
    /\ s_log[1].sink = "json" /\ s_log[1].outcome = "raised"
    /\ s_log[2].sink = "csv" /\ s_log[2].outcome = "saved" /\ s_log[2].rows = 2
    /\ s_log[3].sink = "supabase" /\ s_log[3].outcome = "failed"

====
